---- MODULE Spec2Model ----
(***************************************************************************)
(* Model of the email-vendor dashboard front end.                          *)
(*                                                                         *)
(*   - the inbox page (pages/Emails.tsx): the thread construction memo     *)
(*     and the reply handler;                                               *)
(*   - the sessions page (pages/Sessions.tsx): the derived display status. *)
(*                                                                         *)
(* JavaScript values of mixed type are tagged records: Num(n) is the       *)
(* number n, Str(s) the string s, Undefined the value undefined.  Two      *)
(* values of different type are different (===), as in the source.         *)
(***************************************************************************)
EXTENDS Integers, Sequences, FiniteSets, TLC

VARIABLES
    emails,            \* Emails.tsx:26   useState<Email[]>
    threads,           \* Emails.tsx:339  the value of the threads memo
    phase,             \* position of the thread-assembly run
    mailbox,           \* the collection the server holds (GET emails)
    loading,           \* Emails.tsx:27
    expandedThreadId,  \* Emails.tsx:35
    replyText,         \* Emails.tsx:39
    sendingReply,      \* Emails.tsx:40
    requests,          \* the reply requests issued so far, in order
    replyCalls,        \* handleSendReply runs waiting for emailsApi.reply
    loadCalls,         \* loadEmails runs waiting for emailsApi.getAll
    refreshTimers,     \* pending 4 s refresh timers
    sessions,          \* Sessions.tsx:141  useState<ShipmentSession[]>
    badges,            \* the status labels the sessions page renders
    counts,            \* Sessions.tsx:269  the numbers on the filter tabs
    stats,             \* Analytics.tsx:51  useState<DashboardStats>
    vendors,           \* Analytics.tsx:60  useState<Vendor[]>
    rates,             \* Analytics.tsx:87  completionRate, processingRate
    vendorStats,       \* Analytics.tsx:103 the per-vendor rows
    categoryData,      \* Analytics.tsx:123 the category rows
    filter,            \* Emails.tsx:30
    page,              \* Emails.tsx:55
    fetches,           \* the emailsApi.getAll requests in flight
    shownFor,          \* the request whose response emails holds
    pollClosure,       \* Emails.tsx:65  the loadEmails the interval calls
    draftThread,       \* the thread that was expanded when replyText was typed
    failedSends,       \* the reply requests that were rejected so far
    route,             \* App.tsx:26     the path whose page is mounted
    sessionStore,      \* the sessions the server holds (GET sessions)
    vendorStore,       \* the vendors the server holds (GET vendors)
    sessionsVendors,   \* Sessions.tsx:142  useState<Vendor[]>
    sessionsLoading,   \* Sessions.tsx:143
    sessionsPage,      \* Sessions.tsx:146
    totalItems,        \* Sessions.tsx:148
    loadDataCalls,     \* loadData runs waiting for Promise.all
    selectedSession,   \* Sessions.tsx:155
    showAssignModal,   \* Sessions.tsx:157
    selectedVendor,    \* Sessions.tsx:158
    assigning,         \* Sessions.tsx:159
    assignCalls,       \* handleAssignVendor runs waiting for assignVendor
    assignsSent,       \* the assign requests issued so far
    showSessionModal,        \* Emails.tsx:43
    sessionModalMode,        \* Emails.tsx:44
    selectedEmailForSession, \* Emails.tsx:47
    sessionForm,             \* Emails.tsx:49
    isSavingSession,         \* Emails.tsx:52
    sessionLookups,    \* openSessionModal runs waiting for sessionsApi.getById
    saveCalls,         \* handleSaveSession runs waiting for sessionsApi.create
    sessionRequests    \* the session-create requests issued so far, in order

\* ------------------------------------------------------------------------
\* Bounds of the model
\* ------------------------------------------------------------------------

\* Records in one fetched collection.
MaxEmails == 3
\* Timeline entries (records plus nested replies) of one fetched collection:
\* each of its n records has at most MaxEntries \div n - 1 replies.
MaxEntries == 4
\* Distinct instants a timestamp may denote.
MaxTime == 2
\* Largest email id the server hands out (0 is the falsy id).
MaxId == 1
\* Replies the operator sends in one run of the inbox.
MaxSends == 1
\* Reply requests the server rejects in one run of the inbox.
MaxFailures == 1
\* Session-create requests of one run of the inbox, and the lookups of an
\* existing session in flight at a time.
MaxSaves == 1
MaxLookups == 1
\* Reply requests in flight at a time.
MaxInFlight == 2

\* Requests of loadEmails in flight at a time, pages of the inbox, and the
\* records the server holds when pages are turned.
MaxFetches == 3
MaxPage == 2
MaxStored == 21
\* loadData runs in flight at a time, pages of the sessions table, assign
\* requests of one run and the sessions the server holds when pages are
\* turned.
MaxLoadData == 2
MaxSessionsPage == 3
MaxAssigns == 2
MaxStoredSessions == 41
\* loadEmails runs in flight at a time.
MaxLoads == 1
\* Sessions of one fetched page.
MaxSessions == 2
\* Largest vendor id.
MaxVendor == 2
\* Largest count the dashboard statistics report.
MaxCount == 40
\* Sessions the per-vendor statistics are computed over.
MaxAssigned == 2
\* Sessions the category breakdown is computed over.
MaxShipments == 3

\* ------------------------------------------------------------------------
\* JavaScript values
\* ------------------------------------------------------------------------

Undefined == [undef |-> TRUE]
Null == [null |-> TRUE]
Num(n) == [num |-> n]
Str(s) == [str |-> s]

IsNum(v) == "num" \in DOMAIN v
IsStr(v) == "str" \in DOMAIN v

\* ToBoolean: undefined, 0 and "" are falsy.
Truthy(v) ==
    IF IsNum(v) THEN v.num # 0
    ELSE IF IsStr(v) THEN v.str # ""
    ELSE FALSE

\* String(v), as a template literal `${v}` converts it.
ToStr(v) ==
    IF IsNum(v) THEN ToString(v.num)
    ELSE IF IsStr(v) THEN v.str
    ELSE "undefined"

\* a || b
OrElse(a, b) == IF Truthy(a) THEN a ELSE b

\* String.prototype.trim over the strings of the model: the strings with
\* leading or trailing white space are " " and " hi ".
Trim(s) == IF s = " " THEN "" ELSE IF s = " hi " THEN "hi" ELSE s

\* ------------------------------------------------------------------------
\* Timestamps: ISO 8601 strings and Date parsing
\* ------------------------------------------------------------------------

Iso(n) ==
    "2024-01-01T10:" \o (IF n < 10 THEN "0" ELSE "") \o ToString(n) \o ":00Z"

Times == 1..MaxTime

\* The value NaN of getTime(): no instant is negative.
NaN == -1

\* new Date(s).getTime(): for a well-formed timestamp the milliseconds
\* since midnight of the day all timestamps of the model fall on, for any
\* other string the time value of an Invalid Date.
DateGetTime(s) ==
    IF \E n \in 0..59 : Iso(n) = s
    THEN (600 + (CHOOSE n \in 0..59 : Iso(n) = s)) * 60000
    ELSE NaN

\* ------------------------------------------------------------------------
\* The fetched collection
\* ------------------------------------------------------------------------

EmailIds == 0..MaxId

\* thread_id values: absent, blank, an ordinary id, two numeric-looking ids
\* and an id that has the shape of a synthetic key.
ThreadIds ==
    {Undefined, Str(" "), Str("t1"), Str("7"), Str("10"), Str("single_m1")}

Categories == <<"logistics_inquiry", "shipping_request", "query">>

\* thread_id values of the collections of the inbox: absent or an ordinary id.
InboxThreadIds == {Undefined, Str("t1")}

\* The j-th nested reply (j >= 1) of the email with id n, sent at instant t.
MkReply(n, j, t) ==
    [id |-> Num(10 * n + j),
     body |-> "reply " \o ToString(j) \o " to #" \o ToString(n),
     sent_at |-> Iso(t)]

\* The i-th record of a response: message ids are unique in a collection.
MkEmail(i, n, tid, t, rts) ==
    [id |-> Num(n),
     message_id |-> "m" \o ToString(i),
     thread_id |-> tid,
     sender_name |-> Str("sender" \o ToString(i)),
     subject |-> Str("subject" \o ToString(i)),
     body |-> Str("body" \o ToString(i)),
     category |-> Categories[((i - 1) % Len(Categories)) + 1],
     status |-> "unprocessed",
     received_at |-> Iso(t),
     updated_at |-> Iso(t),
     is_reply |-> FALSE,
     responses |-> [j \in 1..Len(rts) |-> MkReply(n, j, rts[j])],
     session_id |-> Undefined,
     originalEmailId |-> Undefined]

MaxReplies == MaxEntries - 1

\* The send instants of the replies of one record of a collection of n.
ReplyTimes(n) ==
    IF n = 0 THEN {<<>>}
    ELSE UNION {[1..m -> Times] : m \in 0..((MaxEntries \div n) - 1)}

\* es is a collection of n records.
IsCollection(es, n) ==
    \E ids \in [1..n -> EmailIds], tids \in [1..n -> ThreadIds],
       ts \in [1..n -> Times], rts \in [1..n -> ReplyTimes(n)] :
        es = [i \in 1..n |-> MkEmail(i, ids[i], tids[i], ts[i], rts[i])]

\* ------------------------------------------------------------------------
\* Thread construction (the threads memo)
\* ------------------------------------------------------------------------

\* The grouping key of an email.
ThreadKey(email) ==
    IF Truthy(email.thread_id) /\ Trim(email.thread_id.str) # ""
    THEN email.thread_id.str
    ELSE "single_" \o email.message_id

\* The identifier of the synthetic entry of a reply; idx counts from 0.
uniqueReplyId(email, response, idx) ==
    "reply_" \o ToStr(email.id) \o "_" \o ToStr(response.id) \o "_"
        \o ToString(idx)

\* The synthetic entry with the reply's id as back-reference.
replyAsEmailBackRefReply(email, response, idx) ==
    [id |-> Str(uniqueReplyId(email, response, idx)),
     message_id |-> "reply_" \o ToStr(response.id),
     thread_id |-> email.thread_id,
     sender_name |-> Str("You"),
     subject |-> email.subject,
     body |-> Str(response.body),
     category |-> email.category,
     status |-> "completed",
     received_at |-> response.sent_at,
     updated_at |-> response.sent_at,
     is_reply |-> TRUE,
     responses |-> <<>>,
     session_id |-> Undefined,
     originalEmailId |-> response.id]

replyAsEmail(email, response, idx) ==
    [id |-> Str(uniqueReplyId(email, response, idx)),
     message_id |-> "reply_" \o ToStr(response.id),
     thread_id |-> email.thread_id,
     sender_name |-> Str("You"),
     subject |-> email.subject,
     body |-> Str(response.body),
     category |-> email.category,
     status |-> "completed",
     received_at |-> response.sent_at,
     updated_at |-> response.sent_at,
     is_reply |-> TRUE,
     responses |-> <<>>,
     session_id |-> Undefined,
     originalEmailId |-> email.id]

\* What one iteration of the forEach pushes: the email, then its replies.
Pushed(email) ==
    <<email>> \o
    [j \in 1..Len(email.responses) |->
        replyAsEmail(email, email.responses[j], j - 1)]

\* threadMap is an object: its own properties, in creation order.
HasKey(map, key) == \E k \in 1..Len(map) : map[k].key = key

\* A map whose arrays are replaced instead of appended to.
PushAllReset(map, key, items) ==
    IF HasKey(map, key)
    THEN [k \in 1..Len(map) |->
            IF map[k].key = key
            THEN [map[k] EXCEPT !.emails = items]
            ELSE map[k]]
    ELSE Append(map, [key |-> key, emails |-> items])

PushAll(map, key, items) ==
    IF HasKey(map, key)
    THEN [k \in 1..Len(map) |->
            IF map[k].key = key
            THEN [map[k] EXCEPT !.emails = @ \o items]
            ELSE map[k]]
    ELSE Append(map, [key |-> key, emails |-> items])

RECURSIVE BuildThreadMap(_, _)
BuildThreadMap(list, map) ==
    IF list = <<>> THEN map
    ELSE BuildThreadMap(Tail(list),
                        PushAll(map, ThreadKey(Head(list)), Pushed(Head(list))))

\* A property name that is a canonical array index.
NumericKeyRange == 0..99
IsArrayIndex(key) == \E n \in NumericKeyRange : ToString(n) = key
ArrayIndexOf(key) == CHOOSE n \in NumericKeyRange : ToString(n) = key

\* The positions of map whose key is no array index, in creation order.
NonIndexPositions(map) ==
    LET F[k \in 0..Len(map)] ==
            IF k = 0 THEN <<>>
            ELSE IF IsArrayIndex(map[k].key) THEN F[k - 1]
                 ELSE Append(F[k - 1], k)
    IN  F[Len(map)]

\* Object.entries(threadMap): the array-index keys in ascending numeric
\* order, then the other keys in creation order.
ObjectEntries(map) ==
    LET nums == {k \in 1..Len(map) : IsArrayIndex(map[k].key)}
        rank(k) == Cardinality({j \in nums :
                        ArrayIndexOf(map[j].key) < ArrayIndexOf(map[k].key)}) + 1
        numSeq == [r \in 1..Cardinality(nums) |->
                        map[CHOOSE k \in nums : rank(k) = r]]
        strIdx == NonIndexPositions(map)
    IN  numSeq \o [r \in 1..Len(strIdx) |-> map[strIdx[r]]]

\* The comparator with its operands swapped: oldest first.
CompareAsc(ta, tb) == ta - tb

\* The comparator of the sorts: (a, b) => getTime(b) - getTime(a), as the
\* sort reads it: a difference with NaN is NaN, which the sort takes for 0.
CompareDesc(ta, tb) == IF ta = NaN \/ tb = NaN THEN 0 ELSE tb - ta

\* Array.prototype.sort is stable: an element is placed before the first
\* element the comparator orders after it.  keys[i] is getTime() of the i-th
\* element; the result is the order of the positions.
\* An unstable sort: an element overtakes the elements it ties with.
InsertSortedUnstable(sorted, x, keys) ==
    LET later == {p \in 1..Len(sorted) :
                     CompareDesc(keys[sorted[p]], keys[x]) >= 0}
        at == IF later = {} THEN Len(sorted) + 1
              ELSE CHOOSE p \in later : \A q \in later : p <= q
    IN  SubSeq(sorted, 1, at - 1) \o <<x>> \o SubSeq(sorted, at, Len(sorted))

InsertSorted(sorted, x, keys) ==
    LET later == {p \in 1..Len(sorted) :
                     CompareDesc(keys[sorted[p]], keys[x]) > 0}
        at == IF later = {} THEN Len(sorted) + 1
              ELSE CHOOSE p \in later : \A q \in later : p <= q
    IN  SubSeq(sorted, 1, at - 1) \o <<x>> \o SubSeq(sorted, at, Len(sorted))

SortedOrder(keys) ==
    LET F[k \in 0..Len(keys)] ==
            IF k = 0 THEN <<>> ELSE InsertSorted(F[k - 1], k, keys)
    IN  F[Len(keys)]

\* list.sort((a, b) => new Date(b.at).getTime() - new Date(a.at).getTime()),
\* at[i] being the timestamp the comparator reads from list[i].
SortNewestFirst(list, at) ==
    LET keys == [i \in 1..Len(list) |-> DateGetTime(at[i])]
        order == SortedOrder(keys)
    IN  [r \in 1..Len(list) |-> list[order[r]]]

\* The received_at of the elements of a list of emails.
ReceivedAt(list) == [i \in 1..Len(list) |-> list[i].received_at]
\* The latestEmail.received_at of the elements of a list of threads.
LatestReceivedAt(list) ==
    [i \in 1..Len(list) |-> list[i].latestEmail.received_at]

\* An EmailThread whose timeline is left in the order of the pushes.
MakeThreadAsPushed(entry) ==
    [threadId |-> entry.key,
     emails |-> entry.emails,
     latestEmail |-> entry.emails[1],
     firstEmail |-> entry.emails[Len(entry.emails)]]

\* One entry of Object.entries(threadMap) as an EmailThread.
MakeThread(entry) ==
    LET sortedMessages == SortNewestFirst(entry.emails, ReceivedAt(entry.emails))
    IN  [threadId |-> entry.key,
         emails |-> sortedMessages,
         latestEmail |-> sortedMessages[1],
         firstEmail |-> sortedMessages[Len(sortedMessages)]]

\* The threads left in the order of Object.entries.
AssembleThreadsUnsorted(list) ==
    LET entries == ObjectEntries(BuildThreadMap(list, <<>>))
    IN  [r \in 1..Len(entries) |-> MakeThread(entries[r])]

AssembleThreads(list) ==
    LET entries == ObjectEntries(BuildThreadMap(list, <<>>))
        result == [r \in 1..Len(entries) |-> MakeThread(entries[r])]
    IN  SortNewestFirst(result, LatestReceivedAt(result))

\* The memo sorting the source array itself.
SourceSortedInPlace(list) == SortNewestFirst(list, ReceivedAt(list))

\* The source array after the memo ran: filteredList aliases emails and is
\* only read; the arrays that are sorted in place belong to threadMap.
SourceAfterAssembly(list) == list

\* ------------------------------------------------------------------------
\* Thread assembly as a state machine
\* ------------------------------------------------------------------------

sessionVars == <<sessions, badges, counts>>
analyticsVars == <<stats, vendors, rates, vendorStats, categoryData>>
deskVars == <<sessionStore, vendorStore, sessionsVendors, sessionsLoading,
              sessionsPage, totalItems, loadDataCalls, selectedSession,
              showAssignModal, selectedVendor, assigning, assignCalls,
              assignsSent>>
convertVars == <<showSessionModal, sessionModalMode, selectedEmailForSession,
                 sessionForm, isSavingSession, sessionLookups, saveCalls,
                 sessionRequests>>
otherPages == <<sessionVars, analyticsVars, deskVars, route, convertVars>>
fetchVars == <<filter, page, fetches, shownFor, pollClosure>>

vars == <<emails, threads, phase, mailbox, loading, expandedThreadId,
          replyText, sendingReply, requests, replyCalls, loadCalls,
          refreshTimers, draftThread, failedSends, fetchVars, otherPages>>

\* The numbers on the tabs of a page without sessions.
NoCounts == [all |-> 0, unassigned |-> 0, pending_reply |-> 0, replied |-> 0]

\* The hooks of the sessions page at their initial values, no request of
\* the page in flight and nothing held by the server.
SessionsHooksIdle ==
    /\ sessionStore = <<>>
    /\ vendorStore = <<>>
    /\ sessionsVendors = <<>>
    /\ sessionsLoading = TRUE
    /\ sessionsPage = 1
    /\ totalItems = 0
    /\ loadDataCalls = <<>>
    /\ selectedSession = Null
    /\ showAssignModal = FALSE
    /\ selectedVendor = ""
    /\ assigning = FALSE
    /\ assignCalls = <<>>
    /\ assignsSent = 0

\* The sessions page is not mounted.
NoSessionsPage ==
    /\ sessions = <<>>
    /\ badges = <<>>
    /\ counts = NoCounts
    /\ SessionsHooksIdle

\* The initial value of the stats state.
NoStats ==
    [total_emails |-> 0, shipping_requests |-> 0, total_shipments |-> 0,
     complete_shipments |-> 0, incomplete_shipments |-> 0]

\* The analytics page is not mounted.
NoAnalyticsPage ==
    /\ stats = NoStats
    /\ vendors = <<>>
    /\ rates = [completionRate |-> 0, processingRate |-> 0]
    /\ vendorStats = <<>>
    /\ categoryData = <<>>

\* The filter and the page of the inbox at mount; no request is tracked.
FiltersAtMount ==
    /\ filter = "all"
    /\ page = 1
    /\ fetches = <<>>
    /\ shownFor = Null
    /\ pollClosure = [filter |-> "all", page |-> 1, empty |-> TRUE]

\* useState({}): a form none of whose fields is set.
EmptyForm == [sender_name |-> Undefined, package_description |-> Undefined]

\* The state of the component's other hooks after construction.
HooksAtMount ==
    /\ expandedThreadId = Null
    /\ replyText = ""
    /\ sendingReply = FALSE
    /\ requests = <<>>
    /\ replyCalls = <<>>
    /\ refreshTimers = 0
    /\ draftThread = Null
    /\ failedSends = 0
    /\ showSessionModal = FALSE
    /\ sessionModalMode = "create"
    /\ selectedEmailForSession = Null
    /\ sessionForm = EmptyForm
    /\ isSavingSession = FALSE
    /\ sessionLookups = <<>>
    /\ saveCalls = <<>>
    /\ sessionRequests = <<>>

\* A fetch has put a collection into the state; the memo is about to run.
Init ==
    /\ route = "/emails"
    /\ \E n \in 0..MaxEmails : IsCollection(emails, n)
    /\ mailbox = emails
    /\ threads = <<>>
    /\ phase = "fetched"
    /\ loading = FALSE
    /\ loadCalls = 0
    /\ HooksAtMount
    /\ FiltersAtMount
    /\ NoSessionsPage
    /\ NoAnalyticsPage

\* The render that evaluates the memo over the fetched collection.
Assemble ==
    /\ phase = "fetched"
    /\ threads' = AssembleThreads(emails)
    /\ emails' = SourceAfterAssembly(emails)
    /\ phase' = "assembled"
    /\ UNCHANGED <<otherPages, fetchVars, draftThread, failedSends,
                   mailbox, loading, expandedThreadId, replyText,
                   sendingReply, requests, replyCalls, loadCalls,
                   refreshTimers>>

Next == Assemble

Spec == Init /\ [][Next]_vars

\* ------------------------------------------------------------------------
\* Thread assembly over timestamps that do not parse
\* ------------------------------------------------------------------------

\* The timestamps of a response: well-formed, empty, or not a date.
Stamps == {Iso(t) : t \in Times} \cup {"", "not a date"}

\* The i-th record of a response, with its id i, received at the stamp and
\* with one reply per stamp of rstamps.
MkEmailAt(i, tid, stamp, rstamps) ==
    [MkEmail(i, i, tid, 1, [j \in 1..Len(rstamps) |-> 1]) EXCEPT
        !.received_at = stamp,
        !.updated_at = stamp,
        !.responses = [j \in 1..Len(rstamps) |->
                          [@[j] EXCEPT !.sent_at = rstamps[j]]]]

\* es is a collection of n records with at most one reply each.
IsStampedCollection(es, n) ==
    \E tids \in [1..n -> InboxThreadIds], ts \in [1..n -> Stamps],
       rts \in [1..n -> {<<>>} \cup {<<t>> : t \in Stamps}] :
        es = [i \in 1..n |-> MkEmailAt(i, tids[i], ts[i], rts[i])]

\* The comparator is consistent for the elements: ties are transitive.
IsConsistent(keys) ==
    \A i, j, k \in 1..Len(keys) :
        CompareDesc(keys[i], keys[j]) = 0 /\ CompareDesc(keys[j], keys[k]) = 0
            => CompareDesc(keys[i], keys[k]) = 0

\* The results list.sort(comparator) may have: the stable order when the
\* comparator is consistent, otherwise an order the engine defines.
SortOutcomes(list, at) ==
    IF IsConsistent([i \in 1..Len(list) |-> DateGetTime(at[i])])
    THEN {SortNewestFirst(list, at)}
    ELSE {[r \in 1..Len(list) |-> list[perm[r]]] :
              perm \in Permutations(1..Len(list))}

\* The values the threads memo may have.
AssembleOutcomes(list) ==
    LET entries == ObjectEntries(BuildThreadMap(list, <<>>))
        sorted(r) == SortOutcomes(entries[r].emails,
                                  ReceivedAt(entries[r].emails))
        timelines ==
            {f \in [1..Len(entries) ->
                        UNION {sorted(r) : r \in 1..Len(entries)}] :
                \A r \in 1..Len(entries) : f[r] \in sorted(r)}
        results ==
            {[r \in 1..Len(entries) |->
                 [threadId |-> entries[r].key,
                  emails |-> f[r],
                  latestEmail |-> f[r][1],
                  firstEmail |-> f[r][Len(f[r])]]] : f \in timelines}
    IN  UNION {SortOutcomes(result, LatestReceivedAt(result)) :
                   result \in results}

\* A fetch has put a collection into the state whose timestamps need not
\* parse; the memo is about to run.
InitStamped ==
    /\ route = "/emails"
    /\ \E n \in 0..(MaxEmails - 1) : IsStampedCollection(emails, n)
    /\ mailbox = emails
    /\ threads = <<>>
    /\ phase = "fetched"
    /\ loading = FALSE
    /\ loadCalls = 0
    /\ HooksAtMount
    /\ FiltersAtMount
    /\ NoSessionsPage
    /\ NoAnalyticsPage

\* The render that evaluates the memo over the fetched collection.
AssembleStamped ==
    /\ phase = "fetched"
    /\ threads' \in AssembleOutcomes(emails)
    /\ emails' = SourceAfterAssembly(emails)
    /\ phase' = "assembled"
    /\ UNCHANGED <<otherPages, fetchVars, draftThread, failedSends, mailbox, loading,
                   expandedThreadId, replyText, sendingReply, requests,
                   replyCalls, loadCalls, refreshTimers>>

NextStamped == AssembleStamped

SpecStamped == InitStamped /\ [][NextStamped]_vars

\* ------------------------------------------------------------------------
\* The inbox: loading, expanding a thread, replying
\* ------------------------------------------------------------------------

\* What the operator may type into the reply box.
ReplyTexts == {" ", " hi ", "ok"}

\* The collections the server holds when the inbox is opened: one or two
\* records received at the first instant, each with at most one reply.

IsInboxCollection(es, n) ==
    \E ids \in [1..n -> EmailIds], tids \in [1..n -> InboxThreadIds],
       rts \in [1..n -> {<<>>} \cup {<<t>> : t \in Times}] :
        es = [i \in 1..n |-> MkEmail(i, ids[i], tids[i], 1, rts[i])]

isQueryThread(email) ==
    email.category = "logistics_inquiry" \/ email.category = "query"

\* The reply box of thread r is rendered.
ReplyBoxShown(r) ==
    /\ expandedThreadId = Str(threads[r].threadId)
    /\ isQueryThread(threads[r].latestEmail)

\* The button disabled by an empty draft only.
SendDisabledWhenEmpty == Trim(replyText) = ""

\* disabled={!replyText.trim() || sendingReply}
SendDisabled == Trim(replyText) = "" \/ sendingReply

\* The root email id handleSendReply sends the reply to.
RootEmailId(latestEmail) == OrElse(latestEmail.originalEmailId, latestEmail.id)

\* The map that keeps only the replaced elements.
MapOnlyId(list, id, with) ==
    LET hits == {i \in 1..Len(list) : list[i].id = id}
    IN  IF hits = {} THEN <<>> ELSE <<with[CHOOSE i \in hits : TRUE]>>

\* The map applied to every email, whatever its id.
MapEvery(list, id, with) == with

\* prev.map(email => email.id === id ? f(email) : email), with[i] being
\* f(list[i]).
MapWhereId(list, id, with) ==
    [i \in 1..Len(list) |-> IF list[i].id = id THEN with[i] ELSE list[i]]

\* The optimistic copy of an email: the reply is appended locally.
WithOptimisticReply(email, content, now) ==
    [email EXCEPT
        !.status = "completed",
        !.updated_at = Iso(now),
        !.responses = @ \o <<[id |-> Str("temp_" \o ToString(now)),
                             body |-> content,
                             sent_at |-> Iso(now)]>>]

\* The server's copy of an email after it stored a reply to it.
WithStoredReply(email, content, now) ==
    [email EXCEPT
        !.status = "completed",
        !.updated_at = Iso(now),
        !.responses = @ \o <<[id |-> Num(10 * email.id.num + Len(@) + 1),
                             body |-> content,
                             sent_at |-> Iso(now)]>>]

\* POST emails/{id}/reply at the server: the reply is stored with the
\* record the id names, if any.
ServerKnows(id) == \E i \in 1..Len(mailbox) : mailbox[i].id = id

ServerStoreReply(id, content, now) ==
    [i \in 1..Len(mailbox) |->
        IF mailbox[i].id = id
        THEN WithStoredReply(mailbox[i], content, now)
        ELSE mailbox[i]]

InitInbox ==
    /\ route = "/emails"
    /\ \E n \in 1..(MaxEmails - 1) : IsInboxCollection(mailbox, n)
    /\ emails = <<>>
    /\ threads = <<>>
    /\ phase = "assembled"
    /\ loading = TRUE
    /\ loadCalls = 1
    /\ HooksAtMount
    /\ FiltersAtMount
    /\ NoSessionsPage
    /\ NoAnalyticsPage

\* setInterval(loadEmails, 15000): the closure of the mounting render, in
\* which emails is empty, up to the await.
PollTimerFires ==
    /\ loadCalls < MaxLoads
    /\ loading' = TRUE
    /\ loadCalls' = loadCalls + 1
    /\ UNCHANGED <<otherPages, fetchVars, draftThread, failedSends,
                   emails, threads, phase, mailbox, expandedThreadId,
                   replyText, sendingReply, requests, replyCalls,
                   refreshTimers>>

\* The setTimeout of the optimistic fallback: the closure of the render
\* that sent the reply, in which emails is not empty, up to the await.
RefreshTimerFires ==
    /\ refreshTimers > 0
    /\ loadCalls < MaxLoads
    /\ refreshTimers' = refreshTimers - 1
    /\ loadCalls' = loadCalls + 1
    /\ UNCHANGED <<otherPages, fetchVars, draftThread, failedSends,
                   emails, threads, phase, mailbox, loading,
                   expandedThreadId, replyText, sendingReply, requests,
                   replyCalls>>

\* loadEmails after the await: the response carries the collection.
LoadEmailsDone ==
    /\ loadCalls > 0
    /\ emails' = mailbox
    /\ threads' = AssembleThreads(emails')
    /\ loading' = FALSE
    /\ loadCalls' = loadCalls - 1
    /\ UNCHANGED <<otherPages, fetchVars, draftThread, failedSends,
                   phase, mailbox, expandedThreadId, replyText,
                   sendingReply, requests, replyCalls, refreshTimers>>

\* loadEmails after the await: the request failed.
LoadEmailsFails ==
    /\ loadCalls > 0
    /\ loading' = FALSE
    /\ loadCalls' = loadCalls - 1
    /\ UNCHANGED <<otherPages, fetchVars, draftThread, failedSends,
                   emails, threads, phase, mailbox, expandedThreadId,
                   replyText, sendingReply, requests, replyCalls,
                   refreshTimers>>

toggleThread(r) ==
    /\ expandedThreadId' =
          IF expandedThreadId = Str(threads[r].threadId)
          THEN Null ELSE Str(threads[r].threadId)
    /\ replyText' = ""
    /\ draftThread' = Null
    /\ UNCHANGED <<otherPages, fetchVars, failedSends,
                   emails, threads, phase, mailbox, loading, sendingReply,
                   requests, replyCalls, loadCalls, refreshTimers>>

\* onChange of the reply box.
TypeReply(r, text) ==
    /\ ReplyBoxShown(r)
    /\ replyText' = text
    /\ draftThread' = expandedThreadId
    /\ UNCHANGED <<otherPages, fetchVars, failedSends,
                   emails, threads, phase, mailbox, loading,
                   expandedThreadId, sendingReply, requests, replyCalls,
                   loadCalls, refreshTimers>>

\* handleSendReply(thread.latestEmail) up to the await.
handleSendReply(r) ==
    /\ ReplyBoxShown(r)
    /\ ~SendDisabled
    /\ Len(requests) - Len(replyCalls) - failedSends < MaxSends
    /\ Len(replyCalls) < MaxInFlight
    /\ Trim(replyText) # ""
    /\ LET replyContent == Trim(replyText)
           rootEmailId == RootEmailId(threads[r].latestEmail)
           call == [rootEmailId |-> rootEmailId, replyContent |-> replyContent,
                    typedIn |-> draftThread]
       IN  /\ replyText' = ""
           /\ draftThread' = Null
           /\ sendingReply' = TRUE
           /\ requests' = Append(requests,
                                 [emailId |-> rootEmailId,
                                  content |-> replyContent,
                                  thread |-> Str(threads[r].threadId),
                                  typedIn |-> draftThread])
           /\ replyCalls' = Append(replyCalls, call)
    /\ UNCHANGED <<otherPages, fetchVars, failedSends,
                   emails, threads, phase, mailbox, loading,
                   expandedThreadId, loadCalls, refreshTimers>>

Without(calls, k) == SubSeq(calls, 1, k - 1) \o SubSeq(calls, k + 1, Len(calls))

\* handleSendReply after the await: the response carries the updated email.
ReplyReturnsEmail(k, now) ==
    /\ k \in 1..Len(replyCalls)
    /\ ServerKnows(replyCalls[k].rootEmailId)
    /\ LET id == replyCalls[k].rootEmailId
           stored == ServerStoreReply(id, replyCalls[k].replyContent, now)
           updatedEmail ==
               stored[CHOOSE i \in 1..Len(stored) :
                         /\ stored[i].id = id
                         /\ \A j \in 1..(i - 1) : stored[j].id # id]
       IN  /\ mailbox' = stored
           /\ emails' = MapWhereId(emails, id,
                                   [i \in 1..Len(emails) |-> updatedEmail])
    /\ threads' = AssembleThreads(emails')
    /\ sendingReply' = FALSE
    /\ replyCalls' = Without(replyCalls, k)
    /\ UNCHANGED <<otherPages, fetchVars, draftThread, failedSends,
                   phase, loading, expandedThreadId, replyText, requests,
                   loadCalls, refreshTimers>>

\* handleSendReply after the await: the response carries no email.
ReplyAcknowledged(k, now) ==
    /\ k \in 1..Len(replyCalls)
    /\ LET id == replyCalls[k].rootEmailId
           content == replyCalls[k].replyContent
           optimistic == [i \in 1..Len(emails) |->
                             WithOptimisticReply(emails[i], content, now)]
       IN  /\ mailbox' = ServerStoreReply(id, content, now)
           /\ emails' = MapWhereId(emails, id, optimistic)
    /\ threads' = AssembleThreads(emails')
    /\ refreshTimers' = refreshTimers + 1
    /\ sendingReply' = FALSE
    /\ replyCalls' = Without(replyCalls, k)
    /\ UNCHANGED <<otherPages, fetchVars, draftThread, failedSends,
                   phase, loading, expandedThreadId, replyText, requests,
                   loadCalls>>

\* The catch block with setReplyText("").
RestoredDraftEmpty(call) == ""

\* The catch block: setReplyText(replyContent).
RestoredDraft(call) == call.replyContent

\* handleSendReply after the await: emailsApi.reply rejected.
ReplyFails(k) ==
    /\ k \in 1..Len(replyCalls)
    /\ failedSends < MaxFailures
    /\ failedSends' = failedSends + 1
    /\ replyText' = RestoredDraft(replyCalls[k])
    /\ draftThread' = replyCalls[k].typedIn
    /\ sendingReply' = FALSE
    /\ replyCalls' = Without(replyCalls, k)
    /\ UNCHANGED <<otherPages, fetchVars,
                   emails, threads, phase, mailbox, loading,
                   expandedThreadId, requests, loadCalls, refreshTimers>>

NextInbox ==
    \/ PollTimerFires
    \/ RefreshTimerFires
    \/ LoadEmailsDone
    \/ LoadEmailsFails
    \/ \E r \in 1..Len(threads) : toggleThread(r)
    \/ \E r \in 1..Len(threads) : \E text \in ReplyTexts : TypeReply(r, text)
    \/ \E r \in 1..Len(threads) : handleSendReply(r)
    \/ \E k \in 1..MaxInFlight : \E now \in Times : ReplyReturnsEmail(k, now)
    \/ \E k \in 1..MaxInFlight : \E now \in Times : ReplyAcknowledged(k, now)
    \/ \E k \in 1..MaxInFlight : ReplyFails(k)

SpecInbox == InitInbox /\ [][NextInbox]_vars

\* The inbox opened on a mailbox of thread-less emails without replies:
\* every email is a thread of its own.
InitSingles ==
    /\ route = "/emails"
    /\ mailbox = [i \in 1..MaxEmails |-> MkEmail(i, i, Undefined, 1, <<>>)]
    /\ emails = <<>>
    /\ threads = <<>>
    /\ phase = "assembled"
    /\ loading = TRUE
    /\ loadCalls = 1
    /\ HooksAtMount
    /\ FiltersAtMount
    /\ NoSessionsPage
    /\ NoAnalyticsPage

SpecSingles == InitSingles /\ [][NextInbox]_vars

\* ------------------------------------------------------------------------
\* The inbox: converting a thread to a shipment session
\* ------------------------------------------------------------------------

\* The session ids of the emails the server holds: none, or a session.
SessionIds == {Undefined, Num(7)}

\* The values typed into a field of the session form.
FormTexts == {"", "box"}

\* The inbox opened on a mailbox whose emails may have a session.
InitConvert ==
    /\ route = "/emails"
    /\ \E n \in 1..(MaxEmails - 1) :
          \E es \in {fs \in [1..n -> [id : {Num(i) : i \in EmailIds},
                                      tid : InboxThreadIds,
                                      rts : {<<>>} \cup {<<t>> : t \in Times},
                                      sid : SessionIds]] :
                        \A i, j \in 1..n : i # j => fs[i].id # fs[j].id} :
              mailbox = [i \in 1..n |->
                            [MkEmail(i, es[i].id.num, es[i].tid, 1, es[i].rts)
                                EXCEPT !.session_id = es[i].sid]]
    /\ emails = <<>>
    /\ threads = <<>>
    /\ phase = "assembled"
    /\ loading = TRUE
    /\ loadCalls = 1
    /\ HooksAtMount
    /\ FiltersAtMount
    /\ NoSessionsPage
    /\ NoAnalyticsPage

\* What a step of the session modal leaves alone.
ConvertUnchanged ==
    UNCHANGED <<sessionVars, analyticsVars, deskVars, route, fetchVars,
                draftThread, failedSends, emails, threads, phase,
                expandedThreadId, replyText, sendingReply, requests,
                replyCalls, refreshTimers>>

\* The button of the expanded query thread r is rendered and no modal
\* covers it.
ConvertButtonShown(r) ==
    /\ ~showSessionModal
    /\ expandedThreadId = Str(threads[r].threadId)
    /\ isQueryThread(threads[r].latestEmail)

\* The form of the create mode.
CreateForm(email) ==
    [sender_name |-> OrElse(email.sender_name, Str("")),
     package_description |-> Str("")]

\* The form filled from the session sessionsApi.getById returned.
StoredForm ==
    [sender_name |-> Str("stored sender"),
     package_description |-> Str("stored box")]

\* The form after a failed sessionsApi.getById.
FallbackForm(email) ==
    [sender_name |-> OrElse(email.sender_name, Str("")),
     package_description |-> Str("")]

\* openSessionModal(thread.latestEmail), up to the await of the update mode
\* or to its end in the create mode.
openSessionModal(r) ==
    LET email == threads[r].latestEmail
        hasSession == email.session_id
    IN  /\ ConvertButtonShown(r)
        /\ selectedEmailForSession' = email
        /\ IF Truthy(hasSession)
           THEN /\ Len(sessionLookups) < MaxLookups
                /\ sessionModalMode' = "update"
                /\ sessionLookups' = Append(sessionLookups, [email |-> email])
                /\ UNCHANGED <<sessionForm, showSessionModal>>
           ELSE /\ sessionModalMode' = "create"
                /\ sessionForm' = CreateForm(email)
                /\ showSessionModal' = TRUE
                /\ UNCHANGED sessionLookups
        /\ UNCHANGED <<isSavingSession, saveCalls, sessionRequests, mailbox,
                       loading, loadCalls>>
        /\ ConvertUnchanged

\* openSessionModal after the await: the session was fetched.
SessionFetched(k) ==
    /\ k \in 1..Len(sessionLookups)
    /\ sessionForm' = StoredForm
    /\ showSessionModal' = TRUE
    /\ sessionLookups' = Without(sessionLookups, k)
    /\ UNCHANGED <<sessionModalMode, selectedEmailForSession, isSavingSession,
                   saveCalls, sessionRequests, mailbox, loading, loadCalls>>
    /\ ConvertUnchanged

\* openSessionModal after the await: sessionsApi.getById was rejected.
SessionFetchFails(k) ==
    /\ k \in 1..Len(sessionLookups)
    /\ sessionForm' = FallbackForm(sessionLookups[k].email)
    /\ showSessionModal' = TRUE
    /\ sessionLookups' = Without(sessionLookups, k)
    /\ UNCHANGED <<sessionModalMode, selectedEmailForSession, isSavingSession,
                   saveCalls, sessionRequests, mailbox, loading, loadCalls>>
    /\ ConvertUnchanged

\* onChange of a field of the form.
ChangeSessionForm(field, text) ==
    /\ showSessionModal
    /\ sessionForm' = [sessionForm EXCEPT ![field] = Str(text)]
    /\ UNCHANGED <<showSessionModal, sessionModalMode, selectedEmailForSession,
                   isSavingSession, sessionLookups, saveCalls, sessionRequests,
                   mailbox, loading, loadCalls>>
    /\ ConvertUnchanged

\* The X and the Cancel button of the modal.
CloseSessionModal ==
    /\ showSessionModal
    /\ showSessionModal' = FALSE
    /\ UNCHANGED <<sessionForm, sessionModalMode, selectedEmailForSession,
                   isSavingSession, sessionLookups, saveCalls, sessionRequests,
                   mailbox, loading, loadCalls>>
    /\ ConvertUnchanged

\* disabled={isSavingSession || !sessionForm.package_description}
SaveDisabled == isSavingSession \/ ~Truthy(sessionForm.package_description)

\* The save button: handleSaveSession up to the await; the run returns
\* without a request where the validation fails.
handleSaveSession ==
    /\ showSessionModal
    /\ ~SaveDisabled
    /\ selectedEmailForSession # Null
    /\ Truthy(sessionForm.sender_name)
    /\ Truthy(sessionForm.package_description)
    /\ Len(sessionRequests) < MaxSaves
    /\ isSavingSession' = TRUE
    /\ LET payload == [email_id |-> selectedEmailForSession.id,
                       sender_name |-> sessionForm.sender_name,
                       package_description |-> sessionForm.package_description]
       IN  /\ saveCalls' = Append(saveCalls, payload)
           /\ sessionRequests' =
                 Append(sessionRequests,
                        [payload |-> payload, mode |-> sessionModalMode,
                         emails |-> emails])
    /\ UNCHANGED <<showSessionModal, sessionForm, sessionModalMode,
                   selectedEmailForSession, sessionLookups, mailbox, loading,
                   loadCalls>>
    /\ ConvertUnchanged

\* POST sessions at the server: the session is stored with the email the
\* payload names.
ServerStoreSession(payload) ==
    [i \in 1..Len(mailbox) |->
        IF mailbox[i].id = payload.email_id
        THEN [mailbox[i] EXCEPT !.session_id = Num(7)]
        ELSE mailbox[i]]

\* handleSaveSession after the await: the session was stored; the run calls
\* the loadEmails of its render.
SaveSessionDone(k) ==
    /\ k \in 1..Len(saveCalls)
    /\ ServerKnows(saveCalls[k].email_id)
    /\ mailbox' = ServerStoreSession(saveCalls[k])
    /\ showSessionModal' = FALSE
    /\ sessionForm' = EmptyForm
    /\ loadCalls' = loadCalls + 1
    /\ loading' = IF sessionRequests[Len(sessionRequests)].emails = <<>>
                  THEN TRUE ELSE loading
    /\ isSavingSession' = FALSE
    /\ saveCalls' = Without(saveCalls, k)
    /\ UNCHANGED <<sessionModalMode, selectedEmailForSession, sessionLookups,
                   sessionRequests>>
    /\ ConvertUnchanged

\* handleSaveSession after the await: sessionsApi.create was rejected.
SaveSessionFails(k) ==
    /\ k \in 1..Len(saveCalls)
    /\ isSavingSession' = FALSE
    /\ saveCalls' = Without(saveCalls, k)
    /\ UNCHANGED <<showSessionModal, sessionForm, sessionModalMode,
                   selectedEmailForSession, sessionLookups, sessionRequests,
                   mailbox, loading, loadCalls>>
    /\ ConvertUnchanged

NextConvert ==
    \/ LoadEmailsDone
    \/ \E r \in 1..Len(threads) : ~showSessionModal /\ toggleThread(r)
    \/ \E r \in 1..Len(threads) : openSessionModal(r)
    \/ \E k \in 1..MaxLookups : SessionFetched(k)
    \/ \E k \in 1..MaxLookups : SessionFetchFails(k)
    \/ \E field \in {"sender_name", "package_description"} :
          \E text \in FormTexts : ChangeSessionForm(field, text)
    \/ CloseSessionModal
    \/ handleSaveSession
    \/ \E k \in 1..MaxSaves : SaveSessionDone(k)
    \/ \E k \in 1..MaxSaves : SaveSessionFails(k)

SpecConvert == InitConvert /\ [][NextConvert]_vars

\* ------------------------------------------------------------------------
\* The inbox: overlapping fetches under filter and page changes
\* ------------------------------------------------------------------------

\* Emails.tsx:56  useState(20)
pageSize == 20

\* The tabs of the filter bar.
Filters == {"all", "shipping", "query", "spam"}

\* GET emails at the server: the records of the category, if one is given,
\* from offset on, at most limit of them.
ServerEmails(category, limit, offset) ==
    LET matching == SelectSeq(mailbox,
                        LAMBDA e : category = Undefined
                                   \/ Str(e.category) = category)
        last == IF offset + limit < Len(matching)
                THEN offset + limit ELSE Len(matching)
    IN  SubSeq(matching, offset + 1, last)

\* The request loadEmails issues in a render with filter f and page p.
FetchOf(f, p) == [filter |-> f, page |-> p]

\* The response to a request of loadEmails.
ResponseTo(request) ==
    ServerEmails(IF request.filter # "all" THEN Str(request.filter)
                 ELSE Undefined,
                 pageSize, (request.page - 1) * pageSize)

\* The inbox opened on a mailbox of one record more than a page holds: the
\* effects of the mounting render have run and its request is in flight.
InitFetch ==
    /\ route = "/emails"
    /\ mailbox = [i \in 1..MaxStored |-> MkEmail(i, i, Undefined, 1, <<>>)]
    /\ emails = <<>>
    /\ threads = <<>>
    /\ phase = "assembled"
    /\ loading = TRUE
    /\ loadCalls = 1
    /\ HooksAtMount
    /\ filter = "all"
    /\ page = 1
    /\ fetches = <<FetchOf("all", 1)>>
    /\ shownFor = Null
    /\ pollClosure = [filter |-> "all", page |-> 1, empty |-> TRUE]
    /\ NoSessionsPage
    /\ NoAnalyticsPage

\* What the hooks of a fetch leave alone.
FetchUnchanged ==
    UNCHANGED <<otherPages, draftThread, failedSends, phase, mailbox,
                expandedThreadId, replyText, sendingReply, requests,
                replyCalls, refreshTimers>>

\* A click on a tab other than the selected one: the polling effect of the
\* render with the new filter calls loadEmails and sets a new interval, the
\* filter effect sets the page to 1 and, where the page was not 1, the
\* polling effect of that render calls loadEmails again.
SetFilter(f) ==
    LET issued == <<FetchOf(f, page)>>
                  \o (IF page # 1 THEN <<FetchOf(f, 1)>> ELSE <<>>)
    IN  /\ f # filter
        /\ Len(fetches) + Len(issued) <= MaxFetches
        /\ filter' = f
        /\ page' = 1
        /\ fetches' = fetches \o issued
        /\ loadCalls' = Len(fetches')
        /\ loading' = IF emails = <<>> THEN TRUE ELSE loading
        /\ pollClosure' = [filter |-> f, page |-> 1, empty |-> emails = <<>>]
        /\ UNCHANGED <<emails, threads, shownFor>>
        /\ FetchUnchanged

\* The render with page p: the polling effect calls loadEmails and sets a
\* new interval.
ShowPage(p) ==
    /\ Len(fetches) < MaxFetches
    /\ page' = p
    /\ fetches' = Append(fetches, FetchOf(filter, p))
    /\ loadCalls' = Len(fetches')
    /\ loading' = IF emails = <<>> THEN TRUE ELSE loading
    /\ pollClosure' = [filter |-> filter, page |-> p, empty |-> emails = <<>>]
    /\ UNCHANGED <<filter, emails, threads, shownFor>>
    /\ FetchUnchanged

\* The Next button, disabled while the list is shorter than a page.
NextPage ==
    /\ Len(emails) >= pageSize
    /\ page < MaxPage
    /\ ShowPage(page + 1)

\* The Previous button, disabled on page 1.
PreviousPage ==
    /\ page # 1
    /\ ShowPage(IF page - 1 > 1 THEN page - 1 ELSE 1)

\* The interval of the latest polling effect calls its loadEmails.
PollFires ==
    /\ Len(fetches) < MaxFetches
    /\ fetches' = Append(fetches, FetchOf(pollClosure.filter, pollClosure.page))
    /\ loadCalls' = Len(fetches')
    /\ loading' = IF pollClosure.empty THEN TRUE ELSE loading
    /\ UNCHANGED <<filter, page, emails, threads, shownFor, pollClosure>>
    /\ FetchUnchanged

\* loadEmails after the await, for the k-th request in flight: requests are
\* answered in any order and no answer is dropped.
FetchDone(k) ==
    /\ emails' = ResponseTo(fetches[k])
    /\ threads' = AssembleThreads(emails')
    /\ shownFor' = fetches[k]
    /\ fetches' = Without(fetches, k)
    /\ loadCalls' = Len(fetches')
    /\ loading' = FALSE
    /\ UNCHANGED <<filter, page, pollClosure>>
    /\ FetchUnchanged

\* loadEmails after the await: the k-th request in flight failed.
FetchFails(k) ==
    /\ fetches' = Without(fetches, k)
    /\ loadCalls' = Len(fetches')
    /\ loading' = FALSE
    /\ UNCHANGED <<filter, page, emails, threads, shownFor, pollClosure>>
    /\ FetchUnchanged

NextFetch ==
    \/ \E f \in Filters : SetFilter(f)
    \/ NextPage
    \/ PreviousPage
    \/ PollFires
    \/ \E k \in 1..Len(fetches) : FetchDone(k)
    \/ \E k \in 1..Len(fetches) : FetchFails(k)

SpecFetch == InitFetch /\ [][NextFetch]_vars

\* ------------------------------------------------------------------------
\* The sessions page: the derived display status
\* ------------------------------------------------------------------------

\* Vendor ids are keys of vendor records, which count from 1.
VendorIds == 1..MaxVendor

Optional(S) == {Undefined} \cup S
Timestamps == {Str(Iso(t)) : t \in Times}

\* The i-th session of a fetched page.
MkSession(i, vendor, notified, replied) ==
    [id |-> Num(i),
     vendor_id |-> vendor,
     vendor_notified_at |-> notified,
     vendor_replied_at |-> replied,
     status |-> "created",
     created_at |-> Iso(1)]

IsSessionPage(ss, n) ==
    \E vs \in [1..n -> Optional({Num(v) : v \in VendorIds})],
       ns \in [1..n -> Optional(Timestamps)],
       rs \in [1..n -> Optional(Timestamps)] :
        ss = [i \in 1..n |-> MkSession(i, vs[i], ns[i], rs[i])]

\* The label with the notified test before the replied test.
getSessionDisplayStatusNotifiedFirst(session) ==
    IF ~Truthy(session.vendor_id) THEN "Action Required"
    ELSE IF Truthy(session.vendor_notified_at) THEN "Pending Reply"
    ELSE IF Truthy(session.vendor_replied_at) THEN "Completed"
    ELSE "Assigned"

\* The label without the test of vendor_replied_at.
getSessionDisplayStatusUnreplied(session) ==
    IF ~Truthy(session.vendor_id) THEN "Action Required"
    ELSE IF Truthy(session.vendor_notified_at) THEN "Pending Reply"
    ELSE "Assigned"

\* The label of the badge getSessionDisplayStatus returns.
getSessionDisplayStatus(session) ==
    IF ~Truthy(session.vendor_id) THEN "Action Required"
    ELSE IF Truthy(session.vendor_replied_at) THEN "Completed"
    ELSE IF Truthy(session.vendor_notified_at) THEN "Pending Reply"
    ELSE "Assigned"

inboxVars == <<emails, threads, phase, mailbox, loading, expandedThreadId,
               replyText, sendingReply, requests, replyCalls, loadCalls,
               refreshTimers, draftThread, failedSends, fetchVars,
               convertVars>>

\* A fetch has put a page of sessions into the state.
InitSessions ==
    /\ route = "/sessions"
    /\ SessionsHooksIdle
    /\ \E n \in 0..MaxSessions : IsSessionPage(sessions, n)
    /\ badges = <<>>
    /\ counts = NoCounts
    /\ emails = <<>>
    /\ mailbox = <<>>
    /\ threads = <<>>
    /\ phase = "fetched"
    /\ loading = TRUE
    /\ loadCalls = 0
    /\ HooksAtMount
    /\ FiltersAtMount
    /\ NoAnalyticsPage

\* The numbers on the four filter tabs.
countsOf(ss) ==
    [all |-> Len(ss),
     unassigned |->
        Cardinality({i \in 1..Len(ss) : ~Truthy(ss[i].vendor_id)}),
     pending_reply |->
        Cardinality({i \in 1..Len(ss) :
                        /\ Truthy(ss[i].vendor_id)
                        /\ ~Truthy(ss[i].vendor_replied_at)}),
     replied |->
        Cardinality({i \in 1..Len(ss) : Truthy(ss[i].vendor_replied_at)})]

\* The keys of the filter tabs.
FilterKeys == {"all", "unassigned", "pending_reply", "replied"}

\* The callback of the filter with the pending tab read from the badge.
MatchesFilterByBadge(session, filterStatus) ==
    IF filterStatus = "all" THEN TRUE
    ELSE IF filterStatus = "replied"
         THEN getSessionDisplayStatus(session) = "Completed"
    ELSE IF filterStatus = "pending_reply"
         THEN getSessionDisplayStatus(session) = "Pending Reply"
    ELSE IF filterStatus = "unassigned"
         THEN getSessionDisplayStatus(session) = "Action Required"
    ELSE session.status = filterStatus

\* The callback of sessions.filter in filteredSessions.
MatchesFilter(session, filterStatus) ==
    IF filterStatus = "all" THEN TRUE
    ELSE IF filterStatus = "replied" THEN Truthy(session.vendor_replied_at)
    ELSE IF filterStatus = "pending_reply"
         THEN Truthy(session.vendor_id) /\ ~Truthy(session.vendor_replied_at)
    ELSE IF filterStatus = "unassigned" THEN ~Truthy(session.vendor_id)
    ELSE session.status = filterStatus

\* The rows of the table under the tab filterStatus.
filteredSessions(ss, filterStatus) ==
    SelectSeq(ss, LAMBDA session : MatchesFilter(session, filterStatus))

\* The badges of the table: one per session.
BadgesOf(ss) == [i \in 1..Len(ss) |-> getSessionDisplayStatus(ss[i])]

\* The render of the page: the tab counts and one badge per session.
RenderBadges ==
    /\ badges' = BadgesOf(sessions)
    /\ counts' = countsOf(sessions)
    /\ UNCHANGED <<sessions, inboxVars, analyticsVars, deskVars, route>>

NextSessions == RenderBadges

SpecSessions == InitSessions /\ [][NextSessions]_vars

\* ------------------------------------------------------------------------
\* The sessions page along the lifecycle of its sessions
\* ------------------------------------------------------------------------

\* The page shows a fetched page of sessions nobody has handled yet.
InitLifecycle ==
    /\ route = "/sessions"
    /\ SessionsHooksIdle
    /\ \E n \in 1..MaxSessions :
          sessions = [i \in 1..n |-> MkSession(i, Undefined, Undefined, Undefined)]
    /\ badges = BadgesOf(sessions)
    /\ counts = countsOf(sessions)
    /\ emails = <<>>
    /\ mailbox = <<>>
    /\ threads = <<>>
    /\ phase = "fetched"
    /\ loading = FALSE
    /\ loadCalls = 0
    /\ HooksAtMount
    /\ FiltersAtMount
    /\ NoAnalyticsPage

\* setSessions with the page loadData fetched, and the render it causes.
ShowSessions(ss) ==
    /\ sessions' = ss
    /\ badges' = BadgesOf(ss)
    /\ counts' = countsOf(ss)
    /\ UNCHANGED <<inboxVars, analyticsVars, deskVars, route>>

\* handleAssignVendor for the i-th row, whose assign button is rendered
\* while the session has no vendor: the server records the vendor and the
\* loadData that follows shows it.
handleAssignVendor(i, vendor) ==
    /\ ~Truthy(sessions[i].vendor_id)
    /\ ShowSessions([sessions EXCEPT ![i].vendor_id = Num(vendor)])

\* The server notified the vendor of the i-th session; a poll shows it.
VendorNotified(i, t) ==
    /\ Truthy(sessions[i].vendor_id)
    /\ ~Truthy(sessions[i].vendor_notified_at)
    /\ ShowSessions([sessions EXCEPT ![i].vendor_notified_at = Str(Iso(t))])

\* The vendor of the i-th session replied; a poll shows it.
VendorReplied(i, t) ==
    /\ Truthy(sessions[i].vendor_notified_at)
    /\ ~Truthy(sessions[i].vendor_replied_at)
    /\ ShowSessions([sessions EXCEPT ![i].vendor_replied_at = Str(Iso(t))])

NextLifecycle ==
    \/ \E i \in 1..Len(sessions) : \E v \in VendorIds : handleAssignVendor(i, v)
    \/ \E i \in 1..Len(sessions) : \E t \in Times : VendorNotified(i, t)
    \/ \E i \in 1..Len(sessions) : \E t \in Times : VendorReplied(i, t)

SpecLifecycle == InitLifecycle /\ [][NextLifecycle]_vars

\* ------------------------------------------------------------------------
\* Percentages in double precision
\* ------------------------------------------------------------------------

\* 2^k modulo m.
PowerOfTwoMod(k, m) ==
    LET F[i \in 0..k] == IF i = 0 THEN 1 % m ELSE (2 * F[i - 1]) % m
    IN  F[k]

\* The binary exponents of the quotients of two counts.
ExponentRange == -12..12

\* Math.round((a / b) * 100) for integers a >= 0 and b > 0, as IEEE 754
\* binary64 arithmetic computes it.  With k = 52 - E and N = a * 2^k, where
\* 2^E <= a / b < 2^(E + 1), the quotient a / b is the double M * 2^-k, M
\* being N / b rounded to the nearest integer (ties to even); the product
\* by 100 is the double M2 * 2^(s - k), M2 being 100 * M / 2^s rounded the
\* same way, s the number of bits the significand 100 * M has above 53.
\* With r1 = N - M * b and r2 = 100 * M - M2 * 2^s the product is exactly
\* 100 * a / b - (100 * r1 + b * r2) / (b * 2^k), so Math.round, which is
\* floor(x + 1/2), yields floor(100 * a / b + 1/2) unless 100 * a / b + 1/2
\* is an integer and the product fell below it.  M enters only modulo 256.
PercentOf(a, b) ==
    IF a = 0 THEN 0
    ELSE
    LET E == CHOOSE e \in ExponentRange :
                IF e >= 0
                THEN (2 ^ e) * b <= a /\ a < (2 ^ (e + 1)) * b
                ELSE b <= (2 ^ (-e)) * a /\ (2 ^ (-e)) * a < 2 * b
        k == 52 - E
        Nmod == (a * PowerOfTwoMod(k, 256 * b)) % (256 * b)
        floorM == Nmod \div b
        rem == Nmod % b
        up1 == 2 * rem > b \/ (2 * rem = b /\ floorM % 2 = 1)
        M == (floorM + (IF up1 THEN 1 ELSE 0)) % 256
        r1 == IF up1 THEN rem - b ELSE rem
        s == IF (IF E >= 0 THEN 100 * a < 128 * (2 ^ E) * b
                           ELSE 100 * a * (2 ^ (-E)) < 128 * b)
             THEN 6 ELSE 7
        low == (100 * M) % (2 ^ s)
        quo == ((100 * M) % (2 ^ (s + 1))) \div (2 ^ s)
        up2 == 2 * low > 2 ^ s \/ (2 * low = 2 ^ s /\ quo = 1)
        r2 == IF up2 THEN low - 2 ^ s ELSE low
        d == 100 * r1 + b * r2
        half == 200 * a + b
    IN  IF half % (2 * b) = 0 /\ d > 0
        THEN half \div (2 * b) - 1
        ELSE half \div (2 * b)

\* ------------------------------------------------------------------------
\* The analytics page
\* ------------------------------------------------------------------------

\* The counts a statistics response may carry.
StatCounts == {0, 1, 2, 3, 23, MaxCount}

\* The response of dashboardApi.getStats.
IsStats(st) ==
    \E te \in StatCounts, ts \in StatCounts :
        \E sr \in {c \in StatCounts : c <= te}, cs \in {c \in StatCounts : c <= ts} :
            st = [total_emails |-> te, shipping_requests |-> sr,
                  total_shipments |-> ts, complete_shipments |-> cs,
                  incomplete_shipments |-> ts - cs]

completionRate(st) ==
    IF st.total_shipments > 0
    THEN PercentOf(st.complete_shipments, st.total_shipments)
    ELSE 0

processingRate(st) ==
    IF st.total_emails > 0
    THEN PercentOf(st.shipping_requests, st.total_emails)
    ELSE 0

\* The i-th session of the response of sessionsApi.getAll.
MkShipment(i, vendor, notified, replied, service) ==
    [id |-> Num(i),
     vendor_id |-> vendor,
     vendor_notified_at |-> notified,
     vendor_replied_at |-> replied,
     service_type |-> service]

\* The k-th vendor of the response of vendorsApi.getAll.
MkVendor(k, id) == [id |-> Num(id), name |-> "vendor" \o ToString(k)]

\* vs is a list of n vendors; vendor ids are keys.
IsVendorList(vs, n) ==
    \E ids \in [1..n -> VendorIds] :
        /\ \A k, l \in 1..n : k # l => ids[k] # ids[l]
        /\ vs = [k \in 1..n |-> MkVendor(k, ids[k])]

\* The row of one vendor with every notified session counted as pending.
VendorRowNotifiedPending(vendor, ss) ==
    LET vendorSessions == {i \in 1..Len(ss) : ss[i].vendor_id = vendor.id}
        repliedSessions ==
            {i \in vendorSessions : Truthy(ss[i].vendor_replied_at)}
        pendingSessions ==
            {i \in vendorSessions : Truthy(ss[i].vendor_notified_at)}
    IN  [id |-> vendor.id,
         name |-> vendor.name,
         totalSessions |-> Cardinality(vendorSessions),
         repliedSessions |-> Cardinality(repliedSessions),
         pendingSessions |-> Cardinality(pendingSessions),
         responseRate |->
            IF Cardinality(vendorSessions) > 0
            THEN PercentOf(Cardinality(repliedSessions),
                           Cardinality(vendorSessions))
            ELSE 0]

\* The row of one vendor.
VendorRow(vendor, ss) ==
    LET vendorSessions == {i \in 1..Len(ss) : ss[i].vendor_id = vendor.id}
        repliedSessions ==
            {i \in vendorSessions : Truthy(ss[i].vendor_replied_at)}
        pendingSessions ==
            {i \in vendorSessions :
                /\ Truthy(ss[i].vendor_notified_at)
                /\ ~Truthy(ss[i].vendor_replied_at)}
    IN  [id |-> vendor.id,
         name |-> vendor.name,
         totalSessions |-> Cardinality(vendorSessions),
         repliedSessions |-> Cardinality(repliedSessions),
         pendingSessions |-> Cardinality(pendingSessions),
         responseRate |->
            IF Cardinality(vendorSessions) > 0
            THEN PercentOf(Cardinality(repliedSessions),
                           Cardinality(vendorSessions))
            ELSE 0]

\* The rows in the order of the vendor list.
getVendorStatsUnsorted(vs, ss) == [k \in 1..Len(vs) |-> VendorRow(vs[k], ss)]

\* vendors.map(...).sort((a, b) => b.totalSessions - a.totalSessions)
getVendorStats(vs, ss) ==
    LET rows == [k \in 1..Len(vs) |-> VendorRow(vs[k], ss)]
        order == SortedOrder([k \in 1..Len(rows) |-> rows[k].totalSessions])
    IN  [r \in 1..Len(rows) |-> rows[order[r]]]

\* The label of sessions without service_type.
FallbackLabel == "Standard"

\* acc[type] = (acc[type] || 0) + 1
CountInto(acc, type) ==
    IF HasKey(acc, type)
    THEN [k \in 1..Len(acc) |->
            IF acc[k].key = type
            THEN [acc[k] EXCEPT !.count = @ + 1]
            ELSE acc[k]]
    ELSE Append(acc, [key |-> type, count |-> 1])

\* sessions.reduce(...): the counts per service type.
categoriesOf(ss) ==
    LET F[i \in 0..Len(ss)] ==
            IF i = 0 THEN <<>>
            ELSE CountInto(F[i - 1],
                           OrElse(ss[i].service_type, Str(FallbackLabel)).str)
    IN  F[Len(ss)]

\* Object.entries(categories).map(...).sort((a, b) => b.count - a.count)
categoryDataOf(ss) ==
    LET entries == ObjectEntries(categoriesOf(ss))
        rows == [k \in 1..Len(entries) |->
                    [name |-> entries[k].key,
                     count |-> entries[k].count,
                     percentage |-> PercentOf(entries[k].count, Len(ss))]]
        order == SortedOrder([k \in 1..Len(rows) |-> rows[k].count])
    IN  [r \in 1..Len(rows) |-> rows[order[r]]]

\* The inbox and the sessions page are not mounted.
OnlyAnalytics ==
    /\ route = "/analytics"
    /\ SessionsHooksIdle
    /\ badges = <<>>
    /\ counts = NoCounts
    /\ emails = <<>>
    /\ mailbox = <<>>
    /\ threads = <<>>
    /\ phase = "fetched"
    /\ loading = FALSE
    /\ loadCalls = 0
    /\ HooksAtMount
    /\ FiltersAtMount

\* The state of the derived values before the first render.
NothingRendered ==
    /\ rates = [completionRate |-> 0, processingRate |-> 0]
    /\ vendorStats = <<>>
    /\ categoryData = <<>>

\* loadAllData has put a statistics response into the state.
InitRates ==
    /\ IsStats(stats)
    /\ sessions = <<>>
    /\ vendors = <<>>
    /\ NothingRendered
    /\ OnlyAnalytics

\* The service types of the sessions: absent, empty, blank, two names.
ServiceTypes ==
    {Undefined, Str(""), Str(" "), Str("Express"), Str(FallbackLabel)}

\* loadAllData has put sessions and vendors into the state.
InitVendorStats ==
    /\ stats = NoStats
    /\ \E n \in 0..MaxAssigned :
          \E vs \in [1..n -> Optional({Num(v) : v \in VendorIds})],
             ns \in [1..n -> Optional({Str(Iso(1))})],
             rs \in [1..n -> Optional({Str(Iso(1))})] :
              sessions = [i \in 1..n |->
                             MkShipment(i, vs[i], ns[i], rs[i], Undefined)]
    /\ \E n \in 0..MaxVendor : IsVendorList(vendors, n)
    /\ NothingRendered
    /\ OnlyAnalytics

\* loadAllData has put sessions into the state.
InitCategories ==
    /\ stats = NoStats
    /\ \E n \in 0..MaxShipments :
          \E sv \in [1..n -> ServiceTypes] :
              sessions = [i \in 1..n |->
                             MkShipment(i, Undefined, Undefined, Undefined, sv[i])]
    /\ vendors = <<>>
    /\ NothingRendered
    /\ OnlyAnalytics

\* The render of the analytics page.
RenderAnalytics ==
    /\ rates' = [completionRate |-> completionRate(stats),
                 processingRate |-> processingRate(stats)]
    /\ vendorStats' = getVendorStats(vendors, sessions)
    /\ categoryData' = categoryDataOf(sessions)
    /\ phase' = "rendered"
    /\ UNCHANGED <<stats, vendors, sessions, badges, counts, emails, threads,
                   mailbox, loading, expandedThreadId, replyText, sendingReply,
                   requests, replyCalls, loadCalls, refreshTimers, draftThread,
                   failedSends, fetchVars, deskVars, route, convertVars>>

NextAnalytics == RenderAnalytics

SpecRates == InitRates /\ [][NextAnalytics]_vars
SpecVendorStats == InitVendorStats /\ [][NextAnalytics]_vars
SpecCategories == InitCategories /\ [][NextAnalytics]_vars

\* ------------------------------------------------------------------------
\* The sessions page: loadData, the pagination footer and the assign modal
\* ------------------------------------------------------------------------

\* Sessions.tsx:147  useState(20)
sessionsPageSize == 20

\* GET sessions at the server: at most limit sessions from offset on.
ServerSessions(limit, offset) ==
    LET last == IF offset + limit < Len(sessionStore)
                THEN offset + limit ELSE Len(sessionStore)
    IN  SubSeq(sessionStore, offset + 1, last)

\* POST sessions/{id}/assign at the server: the vendor is recorded with the
\* session the id names.
ServerAssign(sessionId, vendorId) ==
    [i \in 1..Len(sessionStore) |->
        IF sessionStore[i].id = Num(sessionId)
        THEN [sessionStore[i] EXCEPT !.vendor_id = Num(vendorId)]
        ELSE sessionStore[i]]

\* parseInt of the value of an option of the vendor select.
ParseInt(text) ==
    IF IsArrayIndex(text) THEN ArrayIndexOf(text) ELSE NaN

\* The created_at of the elements of a list of sessions.
CreatedAt(list) == [i \in 1..Len(list) |-> list[i].created_at]

\* The estimate of the total loadData makes from a response of the given
\* length to the request for page p.
calculatedTotal(length, p) ==
    LET offset == (p - 1) * sessionsPageSize
    IN  IF length < sessionsPageSize THEN offset + length
        ELSE offset + sessionsPageSize * p

\* Math.ceil(totalItems / pageSize)
TotalPagesOf(items) == (items + sessionsPageSize - 1) \div sessionsPageSize
totalPages == TotalPagesOf(totalItems)

\* The page numbers of paginationRange.
paginationRange ==
    {i \in 1..totalPages :
        \/ i = 1
        \/ i = totalPages
        \/ (i >= sessionsPage - 1 /\ i <= sessionsPage + 1)}

\* The pages the enabled controls of the footer lead to; the footer is not
\* rendered while totalItems is 0.
OfferedPages ==
    IF totalItems = 0 THEN {}
    ELSE paginationRange
         \cup (IF sessionsPage # 1 THEN {1, sessionsPage - 1} ELSE {})
         \cup (IF sessionsPage # totalPages
               THEN {sessionsPage + 1, totalPages} ELSE {})

\* The inbox is not mounted.
NoInboxPage ==
    /\ emails = <<>>
    /\ mailbox = <<>>
    /\ threads = <<>>
    /\ phase = "fetched"
    /\ loading = TRUE
    /\ loadCalls = 0
    /\ HooksAtMount
    /\ FiltersAtMount

\* The sessions page after the effects of its mounting render: the request
\* for page 1 is in flight.
SessionsMounted ==
    /\ route = "/sessions"
    /\ vendorStore = [k \in 1..MaxVendor |-> MkVendor(k, k)]
    /\ sessions = <<>>
    /\ badges = <<>>
    /\ counts = NoCounts
    /\ sessionsVendors = <<>>
    /\ sessionsLoading = TRUE
    /\ sessionsPage = 1
    /\ totalItems = 0
    /\ loadDataCalls = <<[page |-> 1]>>
    /\ selectedSession = Null
    /\ showAssignModal = FALSE
    /\ selectedVendor = ""
    /\ assigning = FALSE
    /\ assignCalls = <<>>
    /\ assignsSent = 0
    /\ NoInboxPage
    /\ NoAnalyticsPage

\* The server holds up to two full pages of sessions and one more.
InitPaging ==
    /\ \E n \in 0..MaxStoredSessions :
          sessionStore =
              [i \in 1..n |-> MkSession(i, Undefined, Undefined, Undefined)]
    /\ SessionsMounted

InitAssign ==
    /\ \E n \in 1..MaxSessions :
          sessionStore =
              [i \in 1..n |-> MkSession(i, Undefined, Undefined, Undefined)]
    /\ SessionsMounted

\* What a step of the sessions page leaves alone.
DeskUnchanged == UNCHANGED <<inboxVars, analyticsVars, route, vendorStore>>
ModalUnchanged ==
    UNCHANGED <<selectedSession, showAssignModal, selectedVendor, assigning,
                assignCalls, assignsSent>>
TableUnchanged ==
    UNCHANGED <<sessions, badges, counts, sessionsVendors, totalItems>>

\* loadData of a render with page p, up to the await.
IssueLoadData(p) ==
    /\ Len(loadDataCalls) < MaxLoadData
    /\ sessionsLoading' = TRUE
    /\ loadDataCalls' = Append(loadDataCalls, [page |-> p])

\* The interval of the latest effect calls its loadData; the Refresh Data
\* button (handleManualRefresh) calls the loadData of the same page.
SessionsPollFires ==
    /\ IssueLoadData(sessionsPage)
    /\ UNCHANGED <<sessionStore, sessionsPage>>
    /\ TableUnchanged /\ ModalUnchanged /\ DeskUnchanged

\* A control of the footer: setPage(p), and the effect of the render with
\* the new page calls loadData.
onPageChange(p) ==
    /\ ~(showAssignModal /\ selectedSession # Null)
    /\ p \in OfferedPages
    /\ p # sessionsPage
    /\ p <= MaxSessionsPage
    /\ sessionsPage' = p
    /\ IssueLoadData(p)
    /\ UNCHANGED sessionStore
    /\ TableUnchanged /\ ModalUnchanged /\ DeskUnchanged

\* loadData after the await with only the session list replaced.
LoadDataDoneSessionsOnly(k) ==
    LET p == loadDataCalls[k].page
        data == ServerSessions(sessionsPageSize, (p - 1) * sessionsPageSize)
    IN  /\ sessions' = SortNewestFirst(data, CreatedAt(data))
        /\ badges' = BadgesOf(sessions')
        /\ counts' = countsOf(sessions')
        /\ totalItems' = calculatedTotal(Len(data), p)
        /\ sessionsLoading' = FALSE
        /\ loadDataCalls' = Without(loadDataCalls, k)
        /\ UNCHANGED <<sessionStore, sessionsPage, sessionsVendors>>
        /\ ModalUnchanged /\ DeskUnchanged

\* loadData after the await: both requests were answered.
LoadDataDone(k) ==
    LET p == loadDataCalls[k].page
        data == ServerSessions(sessionsPageSize, (p - 1) * sessionsPageSize)
    IN  /\ sessions' = SortNewestFirst(data, CreatedAt(data))
        /\ badges' = BadgesOf(sessions')
        /\ counts' = countsOf(sessions')
        /\ sessionsVendors' = vendorStore
        /\ totalItems' = calculatedTotal(Len(data), p)
        /\ sessionsLoading' = FALSE
        /\ loadDataCalls' = Without(loadDataCalls, k)
        /\ UNCHANGED <<sessionStore, sessionsPage>>
        /\ ModalUnchanged /\ DeskUnchanged

\* loadData after the await: one of the two requests of Promise.all failed.
LoadDataFails(k, failed) ==
    /\ sessionsLoading' = FALSE
    /\ loadDataCalls' = Without(loadDataCalls, k)
    /\ UNCHANGED <<sessionStore, sessionsPage>>
    /\ TableUnchanged /\ ModalUnchanged /\ DeskUnchanged

NextLoadData ==
    \/ SessionsPollFires
    \/ \E k \in 1..Len(loadDataCalls) : LoadDataDone(k)
    \/ \E k \in 1..Len(loadDataCalls) :
          \E failed \in {"sessions", "vendors"} : LoadDataFails(k, failed)

\* The fetches of the page; whether a control of the footer leads to another
\* page is what C21 is about.
SpecPaging == InitPaging /\ [][NextLoadData]_vars

\* The assign modal is rendered.
AssignModalShown == showAssignModal /\ selectedSession # Null

\* The Assign Vendor button of the i-th row, rendered while the session has
\* no vendor.
OpenAssignModal(i) ==
    /\ ~AssignModalShown
    /\ ~Truthy(sessions[i].vendor_id)
    /\ selectedSession' = sessions[i]
    /\ showAssignModal' = TRUE
    /\ UNCHANGED <<selectedVendor, assigning, assignCalls, assignsSent,
                   sessionStore, sessionsPage, sessionsLoading, loadDataCalls>>
    /\ TableUnchanged /\ DeskUnchanged

\* The options of the vendor select.
VendorOptions ==
    {""} \cup {ToStr(sessionsVendors[k].id) : k \in 1..Len(sessionsVendors)}

\* onChange of the vendor select.
SelectVendor(value) ==
    /\ AssignModalShown
    /\ value \in VendorOptions
    /\ selectedVendor' = value
    /\ UNCHANGED <<selectedSession, showAssignModal, assigning, assignCalls,
                   assignsSent, sessionStore, sessionsPage, sessionsLoading,
                   loadDataCalls>>
    /\ TableUnchanged /\ DeskUnchanged

\* The X button of the modal.
CloseAssignModal ==
    /\ AssignModalShown
    /\ showAssignModal' = FALSE
    /\ UNCHANGED <<selectedSession, selectedVendor, assigning, assignCalls,
                   assignsSent, sessionStore, sessionsPage, sessionsLoading,
                   loadDataCalls>>
    /\ TableUnchanged /\ DeskUnchanged

\* The Cancel button of the modal.
CancelAssign ==
    /\ AssignModalShown
    /\ showAssignModal' = FALSE
    /\ selectedVendor' = ""
    /\ selectedSession' = Null
    /\ UNCHANGED <<assigning, assignCalls, assignsSent, sessionStore,
                   sessionsPage, sessionsLoading, loadDataCalls>>
    /\ TableUnchanged /\ DeskUnchanged

\* disabled={!selectedVendor || assigning}
ConfirmDisabled == selectedVendor = "" \/ assigning

\* The Confirm Assignment button: handleAssignVendor up to the await.  The
\* loadData the run calls after the await is the one of this render.
ConfirmAssignment ==
    /\ AssignModalShown
    /\ ~ConfirmDisabled
    /\ selectedSession # Null /\ selectedVendor # ""
    /\ assignsSent < MaxAssigns
    /\ assigning' = TRUE
    /\ assignCalls' = Append(assignCalls,
                             [sessionId |-> selectedSession.id.num,
                              vendorId |-> ParseInt(selectedVendor),
                              page |-> sessionsPage])
    /\ assignsSent' = assignsSent + 1
    /\ UNCHANGED <<selectedSession, showAssignModal, selectedVendor,
                   sessionStore, sessionsPage, sessionsLoading, loadDataCalls>>
    /\ TableUnchanged /\ DeskUnchanged

\* The modal after the await of a run that leaves it open.
ModalAfterAssignKept ==
    UNCHANGED <<showAssignModal, selectedSession, selectedVendor>>

\* The modal after the await: closed, the selections cleared.
ModalAfterAssign ==
    /\ showAssignModal' = FALSE
    /\ selectedSession' = Null
    /\ selectedVendor' = ""

\* handleAssignVendor after the await: the request was acknowledged.
AssignDone(k) ==
    /\ k \in 1..Len(assignCalls)
    /\ sessionStore' = ServerAssign(assignCalls[k].sessionId,
                                    assignCalls[k].vendorId)
    /\ ModalAfterAssign
    /\ IssueLoadData(assignCalls[k].page)
    /\ assigning' = FALSE
    /\ assignCalls' = Without(assignCalls, k)
    /\ UNCHANGED <<assignsSent, sessionsPage>>
    /\ TableUnchanged /\ DeskUnchanged

\* handleAssignVendor after the await: the request was rejected.
AssignFails(k) ==
    /\ k \in 1..Len(assignCalls)
    /\ assigning' = FALSE
    /\ assignCalls' = Without(assignCalls, k)
    /\ UNCHANGED <<selectedSession, showAssignModal, selectedVendor,
                   assignsSent, sessionStore, sessionsPage, sessionsLoading,
                   loadDataCalls>>
    /\ TableUnchanged /\ DeskUnchanged

NextAssign ==
    \/ NextLoadData
    \/ \E i \in 1..Len(sessions) : OpenAssignModal(i)
    \/ \E value \in {""} \cup {ToString(v) : v \in VendorIds} :
          SelectVendor(value)
    \/ CloseAssignModal
    \/ CancelAssign
    \/ ConfirmAssignment
    \/ \E k \in 1..MaxAssigns : AssignDone(k)
    \/ \E k \in 1..MaxAssigns : AssignFails(k)

SpecAssign == InitAssign /\ [][NextAssign]_vars

\* Either the inbox or the sessions page is mounted, and only its fetches
\* run.
InitLoads ==
    \/ InitSingles
    \/ /\ \E n \in 0..MaxSessions : IsSessionPage(sessionStore, n)
       /\ SessionsMounted

NextLoads ==
    \/ route = "/emails" /\ PollTimerFires
    \/ route = "/emails" /\ LoadEmailsDone
    \/ route = "/emails" /\ LoadEmailsFails
    \/ route = "/sessions" /\ NextLoadData

SpecLoads == InitLoads /\ [][NextLoads]_vars

\* ------------------------------------------------------------------------
\* Vocabulary of the properties
\* ------------------------------------------------------------------------

Assembled == phase = "assembled"

\* The positions <<r, p>> of the assembled output: entry p of thread r.
Slots == UNION {{<<r, p>> : p \in 1..Len(threads[r].emails)} :
                    r \in 1..Len(threads)}
EntryAt(rp) == threads[rp[1]].emails[rp[2]]

TimeOf(e) == DateGetTime(e.received_at)
NonBlankId(tid) == Truthy(tid) /\ Trim(tid.str) # ""

\* The threads whose timeline holds the i-th record of the input.
ThreadsHolding(i) == {r \in 1..Len(threads) :
                         \E p \in 1..Len(threads[r].emails) :
                             threads[r].emails[p] = emails[i]}

C2_SyntheticKeyApart ==
    Assembled =>
        \A r \in 1..Len(threads) :
            \A p, q \in 1..Len(threads[r].emails) :
                LET e == threads[r].emails[p]
                    f == threads[r].emails[q]
                IN  /\ NonBlankId(e.thread_id) =>
                          threads[r].threadId = e.thread_id.str
                    /\ ~e.is_reply /\ ~NonBlankId(e.thread_id) =>
                          /\ threads[r].threadId = "single_" \o e.message_id
                          /\ ~NonBlankId(f.thread_id)

\* The input records held by thread r that carry the id n.
HeldWithId(r, n) ==
    {i \in 1..Len(emails) : r \in ThreadsHolding(i) /\ emails[i].id = Num(n)}

\* C3: every reply of every email is one synthetic entry of the email's
\* thread, carrying the reply's body and sent_at, the operator flag, the
\* parent's thread_id, subject and category and the parent's id as
\* back-reference; a thread holds no other synthetic entries.
C3_RepliesExpanded ==
    Assembled =>
        /\ \A i \in 1..Len(emails) : \A j \in 1..Len(emails[i].responses) :
              \E rp \in Slots :
                  /\ rp[1] \in ThreadsHolding(i)
                  /\ EntryAt(rp).is_reply
                  /\ EntryAt(rp).body = Str(emails[i].responses[j].body)
                  /\ EntryAt(rp).received_at = emails[i].responses[j].sent_at
                  /\ EntryAt(rp).thread_id = emails[i].thread_id
                  /\ EntryAt(rp).subject = emails[i].subject
                  /\ EntryAt(rp).category = emails[i].category
                  /\ EntryAt(rp).originalEmailId = emails[i].id
        /\ \A r \in 1..Len(threads) : \A n \in EmailIds :
              Cardinality({p \in 1..Len(threads[r].emails) :
                              /\ threads[r].emails[p].is_reply
                              /\ threads[r].emails[p].originalEmailId = Num(n)})
                = Cardinality({ij \in HeldWithId(r, n) \X (1..MaxReplies) :
                                  ij[2] <= Len(emails[ij[1]].responses)})
        /\ \A r \in 1..Len(threads) :
              Cardinality({p \in 1..Len(threads[r].emails) :
                              ~threads[r].emails[p].is_reply})
                = Cardinality({i \in 1..Len(emails) : r \in ThreadsHolding(i)})

\* An email with a reply and an email with none share a thread.
C3_Witness ==
    /\ Assembled
    /\ \E i, k \in 1..Len(emails) :
          /\ Len(emails[i].responses) = 1
          /\ Len(emails[k].responses) = 0
          /\ emails[i].id # emails[k].id
          /\ ThreadsHolding(i) = ThreadsHolding(k)
          /\ emails[i].responses[1].sent_at # emails[i].received_at

\* C4: the identifier of a synthetic entry differs from the identifier of
\* every other entry of the output and from every real email id.
C4_SyntheticIdsUnique ==
    Assembled =>
        \A rp \in Slots :
            EntryAt(rp).is_reply =>
                /\ \A rq \in Slots : rq # rp => EntryAt(rq).id # EntryAt(rp).id
                /\ \A i \in 1..Len(emails) : emails[i].id # EntryAt(rp).id

\* C5: latestEmail and firstEmail are entries of the thread with the
\* greatest and the least timestamp of the timeline.
C5_LatestAndFirst ==
    Assembled =>
        \A r \in 1..Len(threads) :
            LET t == threads[r]
            IN  /\ \E p \in 1..Len(t.emails) : t.emails[p] = t.latestEmail
                /\ \E p \in 1..Len(t.emails) : t.emails[p] = t.firstEmail
                /\ \A p \in 1..Len(t.emails) :
                      /\ TimeOf(t.latestEmail) >= TimeOf(t.emails[p])
                      /\ TimeOf(t.firstEmail) <= TimeOf(t.emails[p])

\* Three records of one thread arrived oldest, newest, oldest.
C5_Witness ==
    /\ Assembled
    /\ Len(emails) = 3
    /\ Len(threads) = 1
    /\ TimeOf(emails[1]) < TimeOf(emails[2])
    /\ TimeOf(emails[3]) < TimeOf(emails[2])
    /\ threads[1].latestEmail = emails[2]

\* C6: the threads are in non-increasing order of latestEmail timestamp.
C6_ThreadsNewestFirst ==
    Assembled =>
        \A r \in 1..(Len(threads) - 1) :
            TimeOf(threads[r].latestEmail) >= TimeOf(threads[r + 1].latestEmail)

\* The thread of the first record is older than the thread of the second.
C6_Witness ==
    /\ Assembled
    /\ Len(threads) >= 2
    /\ ThreadsHolding(1) = {Len(threads)}
    /\ ThreadsHolding(2) = {1}
    /\ TimeOf(threads[1].latestEmail) > TimeOf(threads[Len(threads)].latestEmail)

\* The position in the input of the first record held by thread r.
FirstHeld(r) ==
    CHOOSE i \in 1..Len(emails) :
        /\ r \in ThreadsHolding(i)
        /\ \A k \in 1..(i - 1) : r \notin ThreadsHolding(k)

\* The entries of thread r in the order they were added to its array.
AddedOrder(r) ==
    LET F[k \in 0..Len(emails)] ==
            IF k = 0 THEN <<>>
            ELSE IF r \in ThreadsHolding(k)
                 THEN F[k - 1] \o Pushed(emails[k])
                 ELSE F[k - 1]
    IN  F[Len(emails)]

\* The entries of list with timestamp t, in the order of list.
AtInstant(list, t) ==
    LET HasT(e) == e.received_at = Iso(t) IN SelectSeq(list, HasT)

\* Entries of one thread with equal timestamps keep the order in which
\* they were added.
TimelineTiesKeepOrder ==
    \A r \in 1..Len(threads) : \A t \in Times :
        AtInstant(threads[r].emails, t) = AtInstant(AddedOrder(r), t)

SameLatest(r, s) ==
    TimeOf(threads[r].latestEmail) = TimeOf(threads[s].latestEmail)

\* C7 as claimed: threads with equal latestEmail timestamps appear in the
\* order in which their first email occurs in the input, whatever their
\* thread_id, and timeline entries with equal timestamps keep their order.
C7_InsertionOrderTies ==
    Assembled =>
        /\ \A r, s \in 1..Len(threads) :
              r < s /\ SameLatest(r, s) => FirstHeld(r) < FirstHeld(s)
        /\ TimelineTiesKeepOrder

\* C7 amended: threads with equal latestEmail timestamps appear in the
\* property order of the thread map: the threads whose thread_id is a
\* canonical array index first, in ascending numeric order, then the others
\* in the order in which their first email occurs in the input; timeline
\* entries with equal timestamps keep the order in which they were added.
C7_PropertyOrderTies ==
    Assembled =>
        /\ \A r, s \in 1..Len(threads) :
              r < s /\ SameLatest(r, s) =>
                  LET a == threads[r].threadId
                      b == threads[s].threadId
                  IN  \/ IsArrayIndex(a) /\ ~IsArrayIndex(b)
                      \/ /\ IsArrayIndex(a) /\ IsArrayIndex(b)
                         /\ ArrayIndexOf(a) < ArrayIndexOf(b)
                      \/ /\ ~IsArrayIndex(a) /\ ~IsArrayIndex(b)
                         /\ FirstHeld(r) < FirstHeld(s)
        /\ TimelineTiesKeepOrder

\* Three threads tie; the ordinary thread_id was met first, then "10",
\* then "7".
C7_Witness ==
    /\ Assembled
    /\ Len(threads) = 3
    /\ SameLatest(1, 2) /\ SameLatest(2, 3)
    /\ threads[1].threadId = "7" /\ threads[2].threadId = "10"
    /\ ~IsArrayIndex(threads[3].threadId)
    /\ FirstHeld(3) < FirstHeld(2) /\ FirstHeld(2) < FirstHeld(1)

\* C8: evaluating the memo leaves the source list and every record of it
\* as they were, issues no request and leaves the server's collection alone.
C8_SourceUntouched ==
    [][phase = "fetched" /\ phase' = "assembled" =>
          /\ emails' = emails
          /\ mailbox' = mailbox
          /\ requests' = requests]_vars

\* The memo ran over a list that is not in newest-first order and has
\* nested replies.
C8_Witness ==
    /\ Assembled
    /\ Len(emails) = 2
    /\ TimeOf(emails[1]) < TimeOf(emails[2])
    /\ Len(emails[1].responses) = 1
    /\ Len(threads) = 1

\* C9: every reply request goes to the id of a real email: a number the
\* server holds a record for, never the identifier of a synthetic entry.
C9_ReplyTargetsRealEmail ==
    \A k \in 1..Len(requests) :
        /\ IsNum(requests[k].emailId)
        /\ \E i \in 1..Len(mailbox) : mailbox[i].id = requests[k].emailId

Present(v) == v # Undefined

LifecycleStatuses == <<"Action Required", "Assigned", "Pending Reply", "Completed">>
Rank(label) == CHOOSE k \in 1..4 : LifecycleStatuses[k] = label

\* How many of vendor_id, vendor_notified_at, vendor_replied_at are set.
Stage(s) ==
    (IF Present(s.vendor_id) THEN 1 ELSE 0)
    + (IF Present(s.vendor_notified_at) THEN 1 ELSE 0)
    + (IF Present(s.vendor_replied_at) THEN 1 ELSE 0)

\* Every badge is the status of the stage its session has reached.
StagedStatus ==
    /\ Len(badges) = Len(sessions)
    /\ \A i \in 1..Len(sessions) :
          badges[i] = LifecycleStatuses[Stage(sessions[i]) + 1]

\* C11: along the lifecycle that sets vendor_id, then vendor_notified_at,
\* then vendor_replied_at on an unassigned session, the display status is
\* "Action Required", then "Assigned", then "Pending Reply", then
\* "Completed", and no step moves it back to an earlier status.
C11_LifecycleForward ==
    [][/\ StagedStatus
       /\ StagedStatus'
       /\ \A i \in 1..Len(badges) :
             \/ badges'[i] = badges[i]
             \/ Rank(badges'[i]) = Rank(badges[i]) + 1]_vars

\* One session went through the whole lifecycle while another was left
\* unassigned.
C11_Witness ==
    /\ Len(sessions) = 2
    /\ Stage(sessions[1]) = 3
    /\ badges[1] = "Completed"
    /\ Stage(sessions[2]) = 0
    /\ badges[2] = "Action Required"

\* The sessions whose badge carries the label.
WithStatus(label) == {i \in 1..Len(badges) : badges[i] = label}

\* C12: the tab counts are the sizes of the classes of the display status:
\* all counts every session, unassigned the "Action Required" sessions,
\* pending_reply the "Pending Reply" sessions, replied the "Completed"
\* sessions; "Assigned" sessions are counted in all only.
C12_CountsFollowStatus ==
    Len(badges) = Len(sessions) =>
        /\ counts.all = Len(sessions)
        /\ counts.unassigned = Cardinality(WithStatus("Action Required"))
        /\ counts.pending_reply = Cardinality(WithStatus("Pending Reply"))
        /\ counts.replied = Cardinality(WithStatus("Completed"))

Rendered == phase = "rendered"

\* n / d rounded to the nearest integer, a tie rounded up.
RoundHalfUp(n, d) == (2 * n + d) \div (2 * d)

\* C13: completionRate and processingRate are 100 * numerator /
\* denominator rounded half up, 0 when the denominator is 0, always a
\* number between 0 and 100, and completionRate is 100 when every shipment
\* is complete.
C13_RatesRounded ==
    Rendered =>
        /\ rates.completionRate =
              IF stats.total_shipments = 0 THEN 0
              ELSE RoundHalfUp(100 * stats.complete_shipments,
                               stats.total_shipments)
        /\ rates.processingRate =
              IF stats.total_emails = 0 THEN 0
              ELSE RoundHalfUp(100 * stats.shipping_requests,
                               stats.total_emails)
        /\ rates.completionRate \in 0..100
        /\ rates.processingRate \in 0..100
        /\ stats.total_shipments > 0
              /\ stats.complete_shipments = stats.total_shipments
              => rates.completionRate = 100

\* The position in the vendor list of the vendor of row r.
VendorOfRow(r) ==
    CHOOSE k \in 1..Len(vendors) : vendors[k].name = vendorStats[r].name

\* C14: the per-vendor list has exactly one row per vendor of the input,
\* is in non-increasing order of totalSessions, and rows with equal
\* totalSessions are in the order of the vendor list.
C14_VendorRowsOrdered ==
    Rendered =>
        /\ Len(vendorStats) = Len(vendors)
        /\ \A k \in 1..Len(vendors) :
              Cardinality({r \in 1..Len(vendorStats) :
                              /\ vendorStats[r].id = vendors[k].id
                              /\ vendorStats[r].name = vendors[k].name}) = 1
        /\ \A r \in 1..(Len(vendorStats) - 1) :
              /\ vendorStats[r].totalSessions >= vendorStats[r + 1].totalSessions
              /\ vendorStats[r].totalSessions = vendorStats[r + 1].totalSessions
                    => VendorOfRow(r) < VendorOfRow(r + 1)

\* The vendor listed second has more sessions than the vendor listed
\* first and is shown first.
C14_Witness ==
    /\ Rendered
    /\ Len(vendors) = 2
    /\ vendorStats[1].name = vendors[2].name
    /\ vendorStats[1].totalSessions = 2
    /\ vendorStats[2].totalSessions = 0

\* The sessions assigned to the vendor with the id.
SessionsOf(id) == {i \in 1..Len(sessions) : sessions[i].vendor_id = id}

GroupOf(s) ==
    IF Present(s.service_type) /\ Trim(s.service_type.str) # ""
    THEN s.service_type.str
    ELSE FallbackLabel

\* C16: the category breakdown has one row per group of sessions, the
\* sessions without service_type or with a blank one forming the group of
\* the fallback label; the count of a row is the size of its group, its
\* percentage 100 * count / number of sessions rounded half up; the
\* counts sum to the number of sessions; the rows are in non-increasing
\* order of count.
C16_CategoryBreakdown ==
    Rendered =>
        /\ \A i \in 1..Len(sessions) :
              \E r \in 1..Len(categoryData) :
                  categoryData[r].name = GroupOf(sessions[i])
        /\ \A r \in 1..Len(categoryData) :
              /\ categoryData[r].count =
                    Cardinality({i \in 1..Len(sessions) :
                                    GroupOf(sessions[i]) = categoryData[r].name})
              /\ categoryData[r].count > 0
              /\ categoryData[r].percentage =
                    RoundHalfUp(100 * categoryData[r].count, Len(sessions))
        /\ \A r, q \in 1..Len(categoryData) :
              r # q => categoryData[r].name # categoryData[q].name
        /\ \A r \in 1..(Len(categoryData) - 1) :
              categoryData[r].count >= categoryData[r + 1].count

\* The timestamp of the entry does not parse.
Malformed(e) == DateGetTime(e.received_at) = NaN

\* C17: an entry whose timestamp is missing or does not parse counts as
\* the oldest: in every thread it follows every entry with a valid
\* timestamp, the thread's firstEmail is such an entry when there is one,
\* and latestEmail is none when the thread has an entry with a valid
\* timestamp.
C17_MalformedOldest ==
    Assembled =>
        \A r \in 1..Len(threads) :
            LET t == threads[r]
            IN  /\ \A p, q \in 1..Len(t.emails) :
                      Malformed(t.emails[p]) /\ ~Malformed(t.emails[q]) => q < p
                /\ (\E p \in 1..Len(t.emails) : Malformed(t.emails[p]))
                      => Malformed(t.firstEmail)
                /\ (\E p \in 1..Len(t.emails) : ~Malformed(t.emails[p]))
                      => ~Malformed(t.latestEmail)

\* The replies of the local list that the client made up.
OptimisticReplies ==
    {ij \in (1..Len(emails)) \X (1..(MaxReplies + MaxSends)) :
        /\ ij[2] <= Len(emails[ij[1]].responses)
        /\ IsStr(emails[ij[1]].responses[ij[2]].id)}

\* C18: when the reply endpoint acknowledges a reply without returning the
\* email, the step appends exactly one reply with the sent content to the
\* responses of the root email, leaves every other email as it was and
\* schedules a re-fetch; when a fetch completes, the local list is the
\* server's collection and holds no reply the client made up.
C18_OptimisticThenReconciled ==
    [][/\ \A k \in 1..MaxSends : \A now \in Times :
             ReplyAcknowledged(k, now) =>
                 /\ Len(emails') = Len(emails)
                 /\ \A i \in 1..Len(emails) :
                       IF emails[i].id = replyCalls[k].rootEmailId
                       THEN /\ Len(emails'[i].responses)
                                  = Len(emails[i].responses) + 1
                            /\ SubSeq(emails'[i].responses, 1,
                                       Len(emails[i].responses))
                                  = emails[i].responses
                            /\ emails'[i].responses[Len(emails'[i].responses)].body
                                  = replyCalls[k].replyContent
                            /\ emails'[i].id = emails[i].id
                            /\ emails'[i].message_id = emails[i].message_id
                       ELSE emails'[i] = emails[i]
                 /\ refreshTimers' = refreshTimers + 1
       /\ LoadEmailsDone =>
             /\ emails' = mailbox
             /\ \A i \in 1..Len(emails') :
                   \A j \in 1..Len(emails'[i].responses) :
                       IsNum(emails'[i].responses[j].id)]_vars

\* A reply to one of two emails was acknowledged: the local copy of that
\* email carries the optimistic reply, the other email is as the server
\* holds it, and the re-fetch is pending.
C18_Witness ==
    /\ Len(emails) = 2
    /\ Len(requests) >= 1
    /\ refreshTimers = 1
    /\ Cardinality(OptimisticReplies) = 1
    /\ \E ij \in OptimisticReplies :
          /\ emails[ij[1]].id = requests[Len(requests)].emailId
          /\ emails[ij[1]].responses[ij[2]].body
                = requests[Len(requests)].content
    /\ \E i \in 1..Len(emails) : emails[i] = mailbox[i]

\* C19: a response to a request issued for a previously selected filter or
\* page never overwrites the response for the current selection: while the
\* selection stays as it is, a list that is the response to a request for
\* the selected filter and page stays one.
Selection == FetchOf(filter, page)

C19_NoStaleOverwrite ==
    [][(shownFor = Selection /\ filter' = filter /\ page' = page)
          => shownFor' = Selection]_vars

\* C20: the content of every reply request was typed while the thread of
\* its target was the expanded thread.
C20_DraftStaysInThread ==
    \A k \in 1..Len(requests) : requests[k].typedIn = requests[k].thread


\* C23: a failed send leaves the email list as it was, puts the text that
\* was being sent back into the draft and leaves the sending flag false; a
\* request is issued only for a draft that is not blank.
SendFailed == failedSends' = failedSends + 1
SendIssued == Len(requests') = Len(requests) + 1

C23_FailedSendRestores ==
    [][/\ SendFailed =>
            /\ emails' = emails
            /\ threads' = threads
            /\ replyText' = requests[Len(requests)].content
            /\ sendingReply' = FALSE
       /\ SendIssued =>
            /\ Trim(replyText) # ""
            /\ requests'[Len(requests')].content = Trim(replyText)
       /\ Trim(replyText) = "" => requests' = requests]_vars

C23_Witness ==
    /\ failedSends = 1
    /\ Len(requests) = 1
    /\ replyCalls = <<>>
    /\ replyText = "hi"
    /\ emails # <<>>

\* C24: at most one reply request is outstanding at any time, the send
\* control is disabled while it is, and sendingReply is false once it has
\* settled.
C24_OneOutstanding ==
    /\ Len(replyCalls) <= 1
    /\ Len(replyCalls) = 1 => (sendingReply /\ SendDisabled)
    /\ replyCalls = <<>> => ~sendingReply

C24_Witness == Len(requests) = 2 /\ Len(replyCalls) = 1

\* C25: when the reply endpoint returns the updated email, the elements of
\* the list whose id is the root email id become the returned email, the
\* others stay, and the length and the order of the list are unchanged.
C25_ReturnedEmailReplaces ==
    [][\A k \in 1..MaxInFlight : \A now \in Times :
          ReplyReturnsEmail(k, now) =>
             LET id == replyCalls[k].rootEmailId
                 returned == mailbox'[CHOOSE m \in 1..Len(mailbox') :
                                         mailbox'[m].id = id]
             IN  /\ Len(emails') = Len(emails)
                 /\ \A i \in 1..Len(emails) :
                       emails'[i] = IF emails[i].id = id THEN returned
                                    ELSE emails[i]]_vars

\* The reply to one of two emails with different ids came back with the
\* updated email: that element carries the stored reply.
C25_Witness ==
    /\ Len(requests) = 1
    /\ replyCalls = <<>>
    /\ failedSends = 0
    /\ refreshTimers = 0
    /\ Len(emails) = 2
    /\ emails = mailbox
    /\ emails[1].id # emails[2].id
    /\ \E i \in 1..2 :
          /\ emails[i].id = requests[1].emailId
          /\ emails[i].responses # <<>>
          /\ emails[i].responses[Len(emails[i].responses)].body
                = requests[1].content


\* C26: the timeline of every thread is in non-increasing timestamp order,
\* latestEmail is its first element and firstEmail its last element.
C26_TimelineNewestFirst ==
    Assembled =>
        \A r \in 1..Len(threads) :
            LET t == threads[r]
            IN  /\ \A p \in 1..(Len(t.emails) - 1) :
                      TimeOf(t.emails[p]) >= TimeOf(t.emails[p + 1])
                /\ t.latestEmail = t.emails[1]
                /\ t.firstEmail = t.emails[Len(t.emails)]

\* Two threads, one of them led by an expanded reply that is newer than
\* the email it was pushed after.
C26_Witness ==
    /\ Assembled
    /\ Len(threads) >= 2
    /\ \E r \in 1..Len(threads) :
          /\ Len(threads[r].emails) >= 2
          /\ threads[r].emails[1].is_reply
          /\ ~threads[r].firstEmail.is_reply
          /\ TimeOf(threads[r].emails[1]) > TimeOf(threads[r].firstEmail)


\* C27: where every session with vendor_replied_at has a vendor_id, the tabs
\* unassigned, pending_reply and replied are pairwise disjoint and cover the
\* sessions, their counts add up to counts.all, and the count on each tab is
\* the number of rows listed under it.
Listed(key) == {i \in 1..Len(sessions) : MatchesFilter(sessions[i], key)}

RepliedHaveVendor ==
    \A i \in 1..Len(sessions) :
        Truthy(sessions[i].vendor_replied_at) => Truthy(sessions[i].vendor_id)

C27_TabsPartition ==
    (Len(badges) = Len(sessions) /\ RepliedHaveVendor) =>
        /\ Listed("unassigned") \cap Listed("pending_reply") = {}
        /\ Listed("unassigned") \cap Listed("replied") = {}
        /\ Listed("pending_reply") \cap Listed("replied") = {}
        /\ Listed("unassigned") \cup Listed("pending_reply")
              \cup Listed("replied") = 1..Len(sessions)
        /\ counts.unassigned + counts.pending_reply + counts.replied
              = counts.all
        /\ \A key \in FilterKeys :
              counts[key] = Len(filteredSessions(sessions, key))

\* A rendered page with a replied session and a session that is assigned
\* but not notified, which the pending tab lists.
C27_Witness ==
    /\ Len(sessions) = 2
    /\ Len(badges) = Len(sessions)
    /\ RepliedHaveVendor
    /\ counts.all = Len(sessions)
    /\ counts.pending_reply >= 1
    /\ counts.replied >= 1
    /\ \E i \in 1..Len(sessions) :
          /\ Truthy(sessions[i].vendor_id)
          /\ ~Truthy(sessions[i].vendor_notified_at)
          /\ ~Truthy(sessions[i].vendor_replied_at)


\* C28: the page number of the inbox is at least 1, a change of the filter
\* sets the page to 1, and the list displayed after it is page 1 of the
\* selected filter: once that list is held, no answer that arrives while
\* the selection stays replaces it by another list.
C28_FilterChangeShowsPageOne ==
    [][/\ page' >= 1
       /\ filter' # filter => page' = 1
       /\ \A k \in 1..Len(fetches) :
             (FetchDone(k) /\ page = 1 /\ shownFor = FetchOf(filter, 1))
                => shownFor' = FetchOf(filter, 1)]_vars


\* C21: when the fetch for page p returns exactly pageSize sessions, the
\* estimated total gives more than p pages, so that the Next control is
\* enabled; when it returns fewer, p is the last page.
C21_FullPageHasNext ==
    loadDataCalls = <<>> =>
        /\ Len(sessions) = sessionsPageSize =>
              /\ totalPages > sessionsPage
              /\ ENABLED onPageChange(sessionsPage + 1)
        /\ (Len(sessions) < sessionsPageSize /\ totalItems # 0) =>
              totalPages = sessionsPage

\* C29: a failed fetch discards nothing: a failed loadEmails leaves the
\* email list as it was and a failed loadData leaves the sessions and the
\* vendors as they were; sessions and vendors are replaced only together;
\* the loading flag of the page is false once a fetch has settled.
C29_FailedFetchKeepsData ==
    [][/\ LoadEmailsFails =>
             (emails' = emails /\ threads' = threads /\ loading' = FALSE)
       /\ LoadEmailsDone => loading' = FALSE
       /\ \A k \in 1..Len(loadDataCalls) :
             \A failed \in {"sessions", "vendors"} :
                LoadDataFails(k, failed) =>
                   /\ sessions' = sessions
                   /\ sessionsVendors' = sessionsVendors
                   /\ sessionsLoading' = FALSE
       /\ (sessions' # sessions \/ sessionsVendors' # sessionsVendors) =>
             /\ sessionsVendors' = vendorStore
             /\ sessions' = ServerSessions(sessionsPageSize, 0)
             /\ sessionsLoading' = FALSE]_vars

\* Every fetch of the sessions page has settled and none was answered: the
\* page still holds the lists it was mounted with.
C29_Witness ==
    /\ route = "/sessions"
    /\ sessionStore # <<>>
    /\ loadDataCalls = <<>>
    /\ ~sessionsLoading
    /\ sessions = <<>>
    /\ sessionsVendors = <<>>

\* C30: an assign request is sent only with a session and a vendor
\* selected; a rejected request leaves the modal and the selections as they
\* were; an acknowledged one closes the modal, clears the selections and
\* starts a reload; no other step of the run closes the modal; assigning is
\* false after the request settled.
C30_AssignClosesOnSuccess ==
    [][/\ assignsSent' = assignsSent + 1 =>
             /\ selectedSession # Null
             /\ selectedVendor # ""
             /\ assignCalls'[Len(assignCalls')].sessionId
                   = selectedSession.id.num
             /\ Num(assignCalls'[Len(assignCalls')].vendorId)
                   \in {sessionsVendors[v].id : v \in 1..Len(sessionsVendors)}
       /\ \A k \in 1..Len(assignCalls) :
             AssignFails(k) =>
                /\ UNCHANGED <<showAssignModal, selectedSession,
                               selectedVendor>>
                /\ assigning' = FALSE
       /\ sessionStore' # sessionStore =>
             /\ showAssignModal' = FALSE
             /\ selectedSession' = Null
             /\ selectedVendor' = ""
             /\ assigning' = FALSE
             /\ Len(loadDataCalls') = Len(loadDataCalls) + 1
       /\ (showAssignModal /\ ~showAssignModal') =>
             \/ CloseAssignModal
             \/ CancelAssign
             \/ \E k \in 1..Len(assignCalls) : AssignDone(k)]_vars

\* An assign request was sent and rejected: the server holds no assigned
\* session, and the modal still shows the session and the vendor.
C30_Witness ==
    /\ assignsSent = 1
    /\ assignCalls = <<>>
    /\ ~assigning
    /\ \A i \in 1..Len(sessionStore) : ~Truthy(sessionStore[i].vendor_id)
    /\ AssignModalShown
    /\ selectedVendor # ""


\* C22: every session-create request carries as email_id the id of an email
\* of the fetched collection, and its mode is update exactly when that
\* email has a session.
C22_SessionTargetsRealEmail ==
    \A k \in 1..Len(sessionRequests) :
        LET request == sessionRequests[k]
        IN  \E i \in 1..Len(request.emails) :
               /\ request.emails[i].id = request.payload.email_id
               /\ (request.mode = "update")
                     <=> Truthy(request.emails[i].session_id)

====
